---- MODULE Spec2Model ----
(***************************************************************************)
(* Verification model of the portfolio site's admin workflow:              *)
(*   - the identity gate (services/firebase: loginWithGoogle, logout,      *)
(*     checkIsAdmin, onAuthChange, useAuth) and the two admin dashboard    *)
(*     implementations that subscribe to it;                               *)
(*   - the image ingestion pipeline (resizeImageToBase64) in its           *)
(*     single-axis and dual-axis forms and the handlers that call it;      *)
(*   - the contact form (validate / handleSubmit);                         *)
(*   - project tags parsing, project create / list refresh / delete.       *)
(*                                                                         *)
(* The hosted identity provider and document store are external: each call *)
(* to them is an asynchronous request that completes, successfully or with *)
(* an error, in a later step of its own.                                   *)
(***************************************************************************)
EXTENDS Integers, Sequences, FiniteSets, TLC

VARIABLES
    view,           \* the part of the site in use: a tab of the dashboard or a page
    \* ---- identity gate and dashboard session -------------------------
    variant,        \* which dashboard implementation is mounted
    ADMIN_EMAIL,    \* import.meta.env.VITE_ADMIN_EMAIL
    authUser,       \* auth.currentUser of the identity provider
    user,           \* the dashboard's user state
    loading,        \* the dashboard's loading state
    isLoggingIn,    \* the dashboard's isLoggingIn state
    error,          \* the dashboard's error state
    loginPc,        \* position of the handleGoogleLogin / loginWithGoogle flow
    logoutPc,       \* position of the logout flow
    lastLogin,      \* record of the last completed loginWithGoogle call
    lastLogout,     \* what the last completed logout call returned
    lastOp,         \* the last store operation the dashboard issued, and by whom
    \* ---- resizeImageToBase64, the dimension computation ---------------
    policy,         \* "single" (App.tsx) or "dual" (pages/AdminDashboardPage.tsx)
    imgWidth,       \* img.width of the decoded image
    imgHeight,      \* img.height of the decoded image
    maxWidth,       \* parameter maxWidth
    maxHeight,      \* parameter maxHeight ("dual" only)
    canvasWidth,    \* canvas.width after the assignment
    canvasHeight,   \* canvas.height after the assignment
    resizePc,       \* "decoded" before img.onload computes, "drawn" after
    \* ---- project tags ---------------------------------------------------
    tagsInput,      \* projectForm.tags, the comma-separated input
    storedTags,     \* the tags field of the document handed to addDoc
    tagsPc,         \* "typed" before the submit builds the document, "stored" after
    \* ---- contact form ---------------------------------------------------
    form,           \* ContactPage form: name, email, message
    errors,         \* ContactPage errors: field -> message
    contactSubmitting, \* ContactPage submitting
    success,        \* ContactPage success
    contactWrite,   \* the addDoc('messages') call in flight, if any
    storeMessages,  \* the store's messages collection, newest first
    messagesSent,   \* number of message documents the store has taken
    lastSubmit,     \* what the last handleSubmit call was given and did
    \* ---- admin dashboard: projects, pending images, profile image -----
    projectForm,    \* projectForm: title and description
    showForm,       \* showForm
    submitting,     \* submitting
    successMessage, \* successMessage
    imageBase64,    \* imageBase64, the pending project image
    imagePreview,   \* imagePreview
    profileImageBase64,  \* profileImageBase64, the pending profile image
    profileImagePreview, \* profileImagePreview
    savingProfile,  \* savingProfile
    profileSuccess, \* profileSuccess
    projects,       \* projects, the list the dashboard shows
    storeProjects,  \* the store's projects collection
    storeProfile,   \* the store's settings/profile document: field -> value
    created,        \* number of project documents the store has taken
    createWrite,    \* the addDoc('projects') call in flight, if any
    profileWrite,   \* the setDoc('settings/profile') call in flight, if any
    fetches,        \* the fetchProjects calls in flight
    issued,         \* number of fetchProjects calls made
    deletes,        \* the handleDeleteProject calls in flight
    deleteClicks,   \* number of confirmed delete clicks
    pipelines,      \* per selected file, where its resizeImageToBase64 call is
    lastCreated,    \* id of the last project whose addDoc resolved
    refreshed,      \* ids of the creates whose fetchProjects call has set the list
    \* ---- admin dashboard: the messages tab (pages/AdminDashboardPage.tsx) --
    messages,       \* messages, the list the dashboard shows
    messageFetches, \* the fetchMessages calls in flight
    messageDeletes, \* the handleDeleteMessage calls in flight
    messageDeleteClicks, \* number of confirmed delete clicks on messages
    declined,       \* number of confirm() dialogs of the delete buttons answered with Cancel
    \* ---- the visitor's pages: ProjectsPage and HomePage ------------------
    pageLoading,    \* ProjectsPage loading
    pageProjects,   \* ProjectsPage projects
    pageFetch,      \* position of ProjectsPage fetchProjects
    homeProfileImage, \* HomePage profileImage
    homeProjects,   \* HomePage projects
    homeFetch,      \* position of HomePage fetchData
    \* ---- failures ---------------------------------------------------------
    lastFailure     \* the last operation that failed, and what became of the failure

authVars == <<variant, ADMIN_EMAIL, authUser, user, loading, isLoggingIn,
              error, loginPc, logoutPc, lastLogin, lastLogout, lastOp>>

resizeVars == <<policy, imgWidth, imgHeight, maxWidth, maxHeight, canvasWidth,
                canvasHeight, resizePc>>

tagVars == <<tagsInput, storedTags, tagsPc>>

contactVars == <<form, errors, contactSubmitting, success, contactWrite,
                 storeMessages, messagesSent, lastSubmit>>

dashVars == <<projectForm, showForm, submitting, successMessage, imageBase64,
              imagePreview, profileImageBase64, profileImagePreview,
              savingProfile, profileSuccess, projects, storeProjects,
              storeProfile, created, createWrite, profileWrite, fetches, issued,
              deletes, deleteClicks, pipelines, lastCreated, refreshed>>

messageVars == <<messages, messageFetches, messageDeletes, messageDeleteClicks>>

publicVars == <<pageLoading, pageProjects, pageFetch, homeProfileImage,
                homeProjects, homeFetch>>

vars == <<view, authVars, resizeVars, tagVars, contactVars, dashVars,
          messageVars, declined, publicVars, lastFailure>>

\* what each subsystem's steps leave alone
notAuth == <<view, resizeVars, tagVars, contactVars, dashVars, messageVars,
             declined, publicVars, lastFailure>>
notResize == <<view, authVars, tagVars, contactVars, dashVars, messageVars,
               declined, publicVars, lastFailure>>
notTags == <<view, authVars, resizeVars, contactVars, dashVars, messageVars,
             declined, publicVars, lastFailure>>
\* the contact form's steps set lastFailure; of the rest they leave alone
notContact == <<view, authVars, resizeVars, tagVars, dashVars, messageVars,
                declined, publicVars>>
\* the dashboard's steps set error and lastFailure; of the rest they leave alone
authRest == <<variant, ADMIN_EMAIL, authUser, user, loading, isLoggingIn, loginPc,
              logoutPc, lastLogin, lastLogout, lastOp>>
notDash == <<view, authRest, resizeVars, tagVars, contactVars, messageVars,
             declined, publicVars>>
\* the messages tab's steps set error, successMessage, storeMessages,
\* messagesSent and lastFailure; of the rest they leave alone
notMessages == <<view, authRest, resizeVars, tagVars, form, errors, contactSubmitting,
                 success, contactWrite, lastSubmit, projectForm, showForm,
                 submitting, imageBase64, imagePreview, profileImageBase64,
                 profileImagePreview, savingProfile, profileSuccess, projects,
                 storeProjects, storeProfile, created, createWrite, profileWrite,
                 fetches, issued, deletes, deleteClicks, pipelines, lastCreated,
                 refreshed, declined, publicVars>>

-----------------------------------------------------------------------------
(* account emails *)
AdminAddress == "admin@x.io"
GuestAddress == "guest@x.io"
OtherCaseAddress == "Admin@x.io"
PaddedAddress == "admin@x.io "

(* JavaScript values that are not strings *)
NULL == "<null>"
UNDEFINED == "<undefined>"

(* what became of a failure: "shown" as an error message of the page, "logged"
   to the console only, or "escaped" the handler as a rejected promise *)
NoFailure == [op |-> "none", ended |-> "none"]

(* ------------------------------------------------------------------------*)
(*                            IDENTITY GATE                                *)
(* ------------------------------------------------------------------------*)

Variants == {"App", "Page"}   \* App.tsx dashboard (onAuthChange + checkIsAdmin),
                              \* pages/AdminDashboardPage.tsx dashboard (useAuth)

AdminEmails == {AdminAddress, "", UNDEFINED}
Emails == {AdminAddress, GuestAddress, OtherCaseAddress, PaddedAddress, "", NULL}

NoUser == [signedIn |-> FALSE, email |-> NULL]
Account(e) == [signedIn |-> TRUE, email |-> e]

AccessDenied == "Access denied. You are not an admin."
PopupError == "auth/popup-closed-by-user"
SignOutError == "auth/network-request-failed"

NoLogin == [account |-> NoUser, result |-> [user |-> NoUser, error |-> NULL],
            session |-> NoUser, signOut |-> "none"]
NoOp == [op |-> "none", by |-> NoUser]
NoLogout == [done |-> FALSE, success |-> FALSE, error |-> NULL]

UserOps == {"createProject", "deleteProject", "deleteMessage", "saveProfileImage"}

(* email.trim().toLowerCase() on the addresses above *)
Normalised(email) ==
    IF email \in {OtherCaseAddress, PaddedAddress} THEN AdminAddress ELSE email

(* a check that trims and folds case before it compares *)
checkIsAdminNormalised(email) ==
    IF email = NULL \/ email = "" THEN FALSE
    ELSE Normalised(email) = Normalised(ADMIN_EMAIL)

(* checkIsAdmin: falsy email (null, '') is never admin, otherwise strict equality *)
checkIsAdmin(email) ==
    IF email = NULL \/ email = "" THEN FALSE ELSE email = ADMIN_EMAIL

(* the test inside loginWithGoogle: user.email !== ADMIN_EMAIL *)
LoginRejects(email) == email # ADMIN_EMAIL

(* The fetches the "Page" dashboard's useEffect([user]) starts when user is truthy *)
PageEffectOp(u) ==
    IF u.signedIn THEN [op |-> "fetchProjects+fetchMessages+fetchProfileImage", by |-> u]
    ELSE lastOp

(* onAuthStateChanged callback of the mounted dashboard, called with currentUser.
   "Page": useAuth stores whatever it is given, and the dashboard's effect on
           [user] then starts the three fetches when it is non-null.
   "App":  the callback stores the user and starts the fetches only for an
           admin email, and stores null otherwise. *)
AuthCallback(currentUser) ==
    /\ loading' = FALSE
    /\ IF variant = "Page"
       THEN /\ user' = currentUser
            /\ lastOp' = IF currentUser # user THEN PageEffectOp(currentUser) ELSE lastOp
       ELSE IF currentUser.signedIn /\ checkIsAdmin(currentUser.email)
            THEN /\ user' = currentUser
                 /\ lastOp' = [op |-> "fetchProjects+fetchProfileImage", by |-> currentUser]
            ELSE /\ user' = NoUser
                 /\ lastOp' = lastOp

InitAuth ==
    /\ variant \in Variants
    /\ ADMIN_EMAIL \in AdminEmails
    /\ authUser = NoUser
    /\ user = NoUser
    /\ loading = TRUE
    /\ isLoggingIn = FALSE
    /\ error = ""
    /\ loginPc = "idle"
    /\ logoutPc = "idle"
    /\ lastLogin = NoLogin
    /\ lastLogout = NoLogout
    /\ lastOp = NoOp

IdleAuth ==
    /\ variant = "Page"
    /\ ADMIN_EMAIL = AdminAddress
    /\ authUser = NoUser
    /\ user = NoUser
    /\ loading = TRUE
    /\ isLoggingIn = FALSE
    /\ error = ""
    /\ loginPc = "idle"
    /\ logoutPc = "idle"
    /\ lastLogin = NoLogin
    /\ lastLogout = NoLogout
    /\ lastOp = NoOp

(* The first onAuthStateChanged notification after the subscription is made *)
AuthSubscribed ==
    /\ UNCHANGED notAuth
    /\ UNCHANGED lastLogout
    /\ loading
    /\ AuthCallback(authUser)
    /\ UNCHANGED <<variant, ADMIN_EMAIL, authUser, isLoggingIn, error, loginPc,
                   logoutPc, lastLogin>>

LoginScreen == ~loading /\ ~user.signedIn
DashboardShown == ~loading /\ user.signedIn

(* handleGoogleLogin up to the await of signInWithPopup *)
HandleGoogleLogin ==
    /\ UNCHANGED notAuth
    /\ UNCHANGED lastLogout
    /\ LoginScreen
    /\ ~isLoggingIn
    /\ loginPc = "idle"
    /\ error' = ""
    /\ isLoggingIn' = TRUE
    /\ loginPc' = "popup"
    /\ UNCHANGED <<variant, ADMIN_EMAIL, authUser, user, loading, logoutPc,
                   lastLogin, lastOp>>

(* a loginWithGoogle without its catch block: the rejection of signInWithPopup
   leaves handleGoogleLogin before setError and setIsLoggingIn(false) *)
PopupFailsUncaught ==
    /\ UNCHANGED notAuth
    /\ UNCHANGED lastLogout
    /\ loginPc = "popup"
    /\ lastLogin' = [account |-> NoUser,
                     result |-> [user |-> NoUser, error |-> NULL],
                     session |-> authUser, signOut |-> "none"]
    /\ loginPc' = "idle"
    /\ UNCHANGED <<variant, ADMIN_EMAIL, authUser, user, loading, logoutPc,
                   lastOp, error, isLoggingIn>>

(* signInWithPopup rejects: loginWithGoogle returns {user: null, error} and
   handleGoogleLogin shows the message *)
PopupFails ==
    /\ UNCHANGED notAuth
    /\ UNCHANGED lastLogout
    /\ loginPc = "popup"
    /\ lastLogin' = [account |-> NoUser,
                     result |-> [user |-> NoUser, error |-> PopupError],
                     session |-> authUser, signOut |-> "none"]
    /\ error' = PopupError
    /\ isLoggingIn' = FALSE
    /\ loginPc' = "idle"
    /\ UNCHANGED <<variant, ADMIN_EMAIL, authUser, user, loading, logoutPc, lastOp>>

(* signInWithPopup resolves with an account: the provider session is that
   account, the auth listeners are notified, and loginWithGoogle compares the
   email.  An admin email returns {user, error: null} at once; any other email
   awaits signOut(auth). *)
PopupSucceeds(e) ==
    /\ UNCHANGED notAuth
    /\ UNCHANGED lastLogout
    /\ loginPc = "popup"
    /\ authUser' = Account(e)
    /\ AuthCallback(Account(e))
    /\ IF LoginRejects(e)
       THEN /\ loginPc' = "signOut"
            /\ lastLogin' = [account |-> Account(e),
                             result |-> [user |-> NoUser, error |-> NULL],
                             session |-> Account(e), signOut |-> "pending"]
            /\ UNCHANGED <<isLoggingIn, error>>
       ELSE /\ loginPc' = "idle"
            /\ lastLogin' = [account |-> Account(e),
                             result |-> [user |-> Account(e), error |-> NULL],
                             session |-> Account(e), signOut |-> "none"]
            /\ isLoggingIn' = FALSE
            /\ UNCHANGED error
    /\ UNCHANGED <<variant, ADMIN_EMAIL, logoutPc>>

(* the signOut awaited by loginWithGoogle resolves: session revoked,
   listeners notified, access-denied result returned and shown *)
LoginSignOutOk ==
    /\ UNCHANGED notAuth
    /\ UNCHANGED lastLogout
    /\ loginPc = "signOut"
    /\ authUser' = NoUser
    /\ AuthCallback(NoUser)
    /\ lastLogin' = [lastLogin EXCEPT !.result = [user |-> NoUser, error |-> AccessDenied],
                                      !.session = NoUser, !.signOut = "ok"]
    /\ error' = AccessDenied
    /\ isLoggingIn' = FALSE
    /\ loginPc' = "idle"
    /\ UNCHANGED <<variant, ADMIN_EMAIL, logoutPc>>

(* the signOut awaited by loginWithGoogle rejects: the catch block returns
   {user: null, error} with signOut's error; the session is not revoked *)
LoginSignOutFails ==
    /\ UNCHANGED notAuth
    /\ UNCHANGED lastLogout
    /\ loginPc = "signOut"
    /\ lastLogin' = [lastLogin EXCEPT !.result = [user |-> NoUser, error |-> SignOutError],
                                      !.session = authUser, !.signOut = "failed"]
    /\ error' = SignOutError
    /\ isLoggingIn' = FALSE
    /\ loginPc' = "idle"
    /\ UNCHANGED <<variant, ADMIN_EMAIL, authUser, user, loading, logoutPc, lastOp>>

(* the dashboard's logout button: logout() awaits signOut(auth) *)
Logout ==
    /\ UNCHANGED notAuth
    /\ UNCHANGED lastLogout
    /\ DashboardShown
    /\ logoutPc = "idle"
    /\ logoutPc' = "signOut"
    /\ UNCHANGED <<variant, ADMIN_EMAIL, authUser, user, loading, isLoggingIn,
                   error, loginPc, lastLogin, lastOp>>

(* a signOut that revokes the session without notifying the listeners *)
LogoutOkUnnotified ==
    /\ UNCHANGED notAuth
    /\ logoutPc = "signOut"
    /\ authUser' = NoUser
    /\ logoutPc' = "idle"
    /\ lastLogout' = [done |-> TRUE, success |-> TRUE, error |-> NULL]
    /\ UNCHANGED <<variant, ADMIN_EMAIL, user, loading, lastOp, isLoggingIn,
                   error, loginPc, lastLogin>>

(* signOut(auth) resolves: the session is revoked, the listeners are notified
   and logout() returns {success: true, error: null} *)
LogoutOk ==
    /\ UNCHANGED notAuth
    /\ logoutPc = "signOut"
    /\ authUser' = NoUser
    /\ AuthCallback(NoUser)
    /\ logoutPc' = "idle"
    /\ lastLogout' = [done |-> TRUE, success |-> TRUE, error |-> NULL]
    /\ UNCHANGED <<variant, ADMIN_EMAIL, isLoggingIn, error, loginPc, lastLogin>>

(* signOut(auth) rejects: the catch block returns {success: false, error} *)
LogoutFails ==
    /\ UNCHANGED notAuth
    /\ logoutPc = "signOut"
    /\ logoutPc' = "idle"
    /\ lastLogout' = [done |-> TRUE, success |-> FALSE, error |-> SignOutError]
    /\ UNCHANGED <<variant, ADMIN_EMAIL, authUser, user, loading, isLoggingIn,
                   error, loginPc, lastLogin, lastOp>>

(* A store operation started from a control of the rendered dashboard
   (create / delete / save handlers): only rendered when user is non-null *)
DashboardOp(op) ==
    /\ UNCHANGED notAuth
    /\ UNCHANGED lastLogout
    /\ DashboardShown
    /\ lastOp' = [op |-> op, by |-> user]
    /\ UNCHANGED <<variant, ADMIN_EMAIL, authUser, user, loading, isLoggingIn,
                   error, loginPc, logoutPc, lastLogin>>

(* The page is loaded again: component state starts over, calls in flight
   are gone, the provider's persisted session stays *)
Reload ==
    /\ UNCHANGED notAuth
    /\ UNCHANGED lastLogout
    /\ ~loading
    /\ user' = NoUser
    /\ loading' = TRUE
    /\ isLoggingIn' = FALSE
    /\ error' = ""
    /\ loginPc' = "idle"
    /\ logoutPc' = "idle"
    /\ UNCHANGED <<variant, ADMIN_EMAIL, authUser, lastLogin, lastOp>>

NextAuth ==
    \/ AuthSubscribed
    \/ HandleGoogleLogin
    \/ PopupFails
    \/ \E e \in Emails : PopupSucceeds(e)
    \/ LoginSignOutOk
    \/ LoginSignOutFails
    \/ Logout
    \/ LogoutOk
    \/ LogoutFails
    \/ \E op \in UserOps : DashboardOp(op)
    \/ Reload

(* ------------------------------------------------------------------------*)
(*        IEEE-754 binary64 arithmetic on the values the resize uses        *)
(* ------------------------------------------------------------------------*)
(* A positive double is [bits, e]: bits is its 53-bit significand, most
   significant bit first (bits[1] = 1), and e the binary exponent of that
   leading bit, so its value is the integer written by bits times 2^(e-52). *)

MantissaBits == 53

RECURSIVE Pow2(_)
Pow2(n) == IF n = 0 THEN 1 ELSE 2 * Pow2(n - 1)

(* binary digits of a natural number, most significant first; <<>> for 0 *)
RECURSIVE BitsOf(_)
BitsOf(n) == IF n = 0 THEN <<>> ELSE Append(BitsOf(n \div 2), n % 2)

(* the natural number written by the first k bits *)
RECURSIVE BitsToInt(_, _)
BitsToInt(bits, k) == IF k = 0 THEN 0 ELSE 2 * BitsToInt(bits, k - 1) + bits[k]

(* floor(log2(a / b)) for positive integers a, b *)
RECURSIVE QuotientExponent(_, _)
QuotientExponent(a, b) ==
    IF a >= 2 * b THEN QuotientExponent(a, 2 * b) + 1
    ELSE IF a < b THEN QuotientExponent(2 * a, b) - 1
    ELSE 0

(* The next n >= 1 binary digits of rem / den (rem < den), and the remainder
   left: schoolbook long division, the digits of the first half, then those
   of the second half from the remainder the first half leaves *)
RECURSIVE DivBits(_, _, _)
DivBits(rem, den, n) ==
    IF n = 1
    THEN LET bit == IF 2 * rem >= den THEN 1 ELSE 0
         IN [bits |-> <<bit>>, rem |-> 2 * rem - bit * den]
    ELSE LET first == DivBits(rem, den, n \div 2)
             second == DivBits(first.rem, den, n - n \div 2)
         IN [bits |-> first.bits \o second.bits, rem |-> second.rem]

(* Digits lo..hi of a significand times the natural number n, given the carry
   into digit hi, least significant digit first, and the carry out of digit
   lo: schoolbook multiplication, the low-order half first *)
RECURSIVE MulBits(_, _, _, _, _)
MulBits(bits, n, lo, hi, carry) ==
    IF lo = hi
    THEN LET t == bits[lo] * n + carry
         IN [rev |-> <<t % 2>>, carry |-> t \div 2]
    ELSE LET mid == (lo + hi) \div 2
             low == MulBits(bits, n, mid + 1, hi, carry)
             high == MulBits(bits, n, lo, mid, low.carry)
         IN [rev |-> low.rev \o high.rev, carry |-> high.carry]

Reverse(s) == [i \in 1..Len(s) |-> s[Len(s) + 1 - i]]

ZeroBits == [i \in 1..(MantissaBits + 2) |-> 0]

(* Round the exact binary expansion digits (digits[1] = 1, leading bit of
   weight 2^e) to 53 bits, ties to even: the default rounding of every
   JavaScript arithmetic operation *)
RoundToDouble(digits, e) ==
    LET len == Len(digits)
        padded == digits \o SubSeq(ZeroBits, 1, MantissaBits + 2)
        kept == SubSeq(padded, 1, MantissaBits)
        guard == padded[MantissaBits + 1]
        sticky == \E i \in (MantissaBits + 2)..len : digits[i] = 1
        up == guard = 1 /\ (sticky \/ kept[MantissaBits] = 1)
        zeros == {i \in 1..MantissaBits : kept[i] = 0}
        last0 == CHOOSE i \in zeros : \A j \in zeros : j <= i
    IN IF ~up THEN [bits |-> kept, e |-> e]
       ELSE IF zeros = {}
            THEN [bits |-> <<1>> \o SubSeq(ZeroBits, 1, MantissaBits - 1), e |-> e + 1]
            ELSE [bits |-> SubSeq(kept, 1, last0 - 1) \o <<1>>
                             \o SubSeq(ZeroBits, 1, MantissaBits - last0),
                  e |-> e]

(* num / den, a quotient in [1, 2), times 2^e, correctly rounded: the leading
   digit 1, the next 53 digits, and one digit more that says whether the
   division left a remainder *)
Quotient(num, den, e) ==
    LET frac == DivBits(num - den, den, MantissaBits)
    IN RoundToDouble(<<1>> \o frac.bits \o <<IF frac.rem = 0 THEN 0 ELSE 1>>, e)

(* a / b in double arithmetic, for positive integers a and b (each exactly
   representable): the correctly rounded quotient *)
FDiv(a, b) ==
    LET e == QuotientExponent(a, b)
    IN IF e < 0 THEN Quotient(a * Pow2(-e), b, e) ELSE Quotient(a, b * Pow2(e), e)

(* n * d in double arithmetic, for a positive integer n and a double d *)
FMul(n, d) ==
    LET low == MulBits(d.bits, n, 1, MantissaBits, 0)
        product == BitsOf(low.carry) \o Reverse(low.rev)
    IN RoundToDouble(product, d.e + Len(product) - MantissaBits)

(* d1 < d2 *)
FLess(d1, d2) ==
    \/ d1.e < d2.e
    \/ /\ d1.e = d2.e
       /\ \E i \in 1..MantissaBits :
            /\ d1.bits[i] < d2.bits[i]
            /\ \A j \in 1..(i - 1) : d1.bits[j] = d2.bits[j]

(* Math.min of two doubles *)
FMin(d1, d2) == IF FLess(d2, d1) THEN d2 ELSE d1

(* Assigning a double to canvas.width / canvas.height (WebIDL unsigned long):
   the fraction is dropped.  The doubles assigned here are below 2^31. *)
ToUnsignedLong(d) ==
    IF d.e < 0 THEN 0 ELSE BitsToInt(d.bits, d.e + 1)

(* ------------------------------------------------------------------------*)
(*              resizeImageToBase64: the output dimensions                  *)
(* ------------------------------------------------------------------------*)

MaxDim == 23       \* decoded images are 1..MaxDim pixels wide and high
MaxSide == 13      \* maxWidth and maxHeight range over 1..MaxSide

(* ResizeSingle without its width test: every image is scaled to maxWidth *)
ResizeSingleAlways(width, height, maxW) ==
    [width |-> maxW, height |-> ToUnsignedLong(FDiv(height * maxW, width))]

(* App.tsx: only the width is constrained
     if (width > maxWidth) { height = (height * maxWidth) / width; width = maxWidth; }
     canvas.width = width; canvas.height = height; *)
ResizeSingle(width, height, maxW) ==
    IF width > maxW
    THEN [width |-> maxW, height |-> ToUnsignedLong(FDiv(height * maxW, width))]
    ELSE [width |-> width, height |-> height]

(* ResizeDual with the width test and the width ratio only *)
ResizeDualWidthOnly(width, height, maxW, maxH) ==
    IF width > maxW
    THEN LET ratio == FDiv(maxW, width)
         IN [width |-> ToUnsignedLong(FMul(width, ratio)),
             height |-> ToUnsignedLong(FMul(height, ratio))]
    ELSE [width |-> width, height |-> height]

(* ResizeDual with Math.max in place of Math.min *)
ResizeDualMax(width, height, maxW, maxH) ==
    IF width > maxW \/ height > maxH
    THEN LET ratio == FMin(FDiv(maxW, width), FDiv(maxH, height))
             other == IF ratio = FDiv(maxW, width) THEN FDiv(maxH, height)
                      ELSE FDiv(maxW, width)
         IN [width |-> ToUnsignedLong(FMul(width, other)),
             height |-> ToUnsignedLong(FMul(height, other))]
    ELSE [width |-> width, height |-> height]

(* pages/AdminDashboardPage.tsx: both axes are constrained
     if (width > maxWidth || height > maxHeight) {
       const ratio = Math.min(maxWidth / width, maxHeight / height);
       width *= ratio; height *= ratio; }
     canvas.width = width; canvas.height = height; *)
ResizeDual(width, height, maxW, maxH) ==
    IF width > maxW \/ height > maxH
    THEN LET ratio == FMin(FDiv(maxW, width), FDiv(maxH, height))
         IN [width |-> ToUnsignedLong(FMul(width, ratio)),
             height |-> ToUnsignedLong(FMul(height, ratio))]
    ELSE [width |-> width, height |-> height]

Policies == {"single", "dual"}

(* A decoded image reaches img.onload; the "single" form has no maxHeight *)
InitResize ==
    /\ policy \in Policies
    /\ imgWidth \in 1..MaxDim
    /\ imgHeight \in 1..MaxDim
    /\ maxWidth \in 1..MaxSide
    /\ maxHeight \in IF policy = "dual" THEN 1..MaxSide ELSE {0}
    /\ canvasWidth = 0
    /\ canvasHeight = 0
    /\ resizePc = "decoded"

IdleResize ==
    /\ policy = "single"
    /\ imgWidth = 1
    /\ imgHeight = 1
    /\ maxWidth = 1
    /\ maxHeight = 0
    /\ canvasWidth = 0
    /\ canvasHeight = 0
    /\ resizePc = "idle"

(* img.onload of the App.tsx form *)
OnLoadSingle ==
    /\ resizePc = "decoded"
    /\ policy = "single"
    /\ LET out == ResizeSingle(imgWidth, imgHeight, maxWidth)
       IN /\ canvasWidth' = out.width
          /\ canvasHeight' = out.height
    /\ resizePc' = "drawn"
    /\ UNCHANGED <<policy, imgWidth, imgHeight, maxWidth, maxHeight>>
    /\ UNCHANGED notResize

(* img.onload of the pages/AdminDashboardPage.tsx form *)
OnLoadDual ==
    /\ resizePc = "decoded"
    /\ policy = "dual"
    /\ LET out == ResizeDual(imgWidth, imgHeight, maxWidth, maxHeight)
       IN /\ canvasWidth' = out.width
          /\ canvasHeight' = out.height
    /\ resizePc' = "drawn"
    /\ UNCHANGED <<policy, imgWidth, imgHeight, maxWidth, maxHeight>>
    /\ UNCHANGED notResize

NextResize == OnLoadSingle \/ OnLoadDual

(* ------------------------------------------------------------------------*)
(*                               STRINGS                                   *)
(* ------------------------------------------------------------------------*)
(* A string is the sequence of its characters. *)

Space == " "

RECURSIVE StringsUpTo(_, _)
StringsUpTo(chars, n) ==
    IF n = 0 THEN {<<>>}
    ELSE LET shorter == StringsUpTo(chars, n - 1)
         IN shorter \cup {Append(t, c) : t \in shorter, c \in chars}

(* String.prototype.trim: leading and trailing white space removed *)
RECURSIVE TrimStart(_)
TrimStart(t) == IF t # <<>> /\ Head(t) = Space THEN TrimStart(Tail(t)) ELSE t

RECURSIVE TrimEnd(_)
TrimEnd(t) ==
    IF t # <<>> /\ t[Len(t)] = Space THEN TrimEnd(SubSeq(t, 1, Len(t) - 1)) ELSE t

Trim(t) == TrimEnd(TrimStart(t))

(* ------------------------------------------------------------------------*)
(*                 handleSubmitProject: the tags of a project               *)
(* ------------------------------------------------------------------------*)

MaxTagsLen == 5                     \* longest tags input
TagChars == {"a", "b", Space, ","}

(* String.prototype.split(','): the pieces between commas, empty ones kept *)
RECURSIVE Split(_)
Split(t) ==
    IF \A i \in 1..Len(t) : t[i] # ","
    THEN <<t>>
    ELSE LET i == CHOOSE k \in 1..Len(t) : t[k] = "," /\ \A j \in 1..(k - 1) : t[j] # ","
         IN <<SubSeq(t, 1, i - 1)>> \o Split(SubSeq(t, i + 1, Len(t)))

(* .map(t => t.trim()) *)
MapTrim(pieces) == [k \in 1..Len(pieces) |-> Trim(pieces[k])]

(* .filter(Boolean): the empty string is the only falsy string *)
FilterBoolean(pieces) == SelectSeq(pieces, LAMBDA t : t # <<>>)

(* the tags without the filter: empty pieces are stored too *)
ParseTagsUnfiltered(t) == MapTrim(Split(t))

(* projectForm.tags.split(',').map(t => t.trim()).filter(Boolean) *)
ParseTags(t) == FilterBoolean(MapTrim(Split(t)))

InitTags ==
    /\ tagsInput \in StringsUpTo(TagChars, MaxTagsLen)
    /\ storedTags = <<>>
    /\ tagsPc = "typed"

IdleTags ==
    /\ tagsInput = <<>>
    /\ storedTags = <<>>
    /\ tagsPc = "idle"

(* handleSubmitProject builds the document's tags field *)
BuildTags ==
    /\ tagsPc = "typed"
    /\ storedTags' = ParseTags(tagsInput)
    /\ tagsPc' = "stored"
    /\ UNCHANGED tagsInput
    /\ UNCHANGED notTags

NextTags == BuildTags

(* ------------------------------------------------------------------------*)
(*                        ContactPage: the contact form                     *)
(* ------------------------------------------------------------------------*)

MaxEmailLen == 6                    \* longest email typed into the form
EmailChars == {"a", "@", ".", Space}
Texts == {<<>>, <<Space>>, <<"a">>, <<Space, "a", Space>>}   \* names and messages
Fields == {"name", "email", "message"}

EmptyForm == [name |-> <<>>, email |-> <<>>, message |-> <<>>]
NoWrite == [pending |-> FALSE, doc |-> EmptyForm]
NoSubmit == [done |-> FALSE, form |-> EmptyForm, wrote |-> FALSE]

(* /\S+@\S+\.\S+/ matched from position i on, at step q of the pattern:
   1 the first \S of the local part, 2 more \S or the '@', 3 the first \S
   after the '@', 4 more \S or the '.', 5 the \S after the '.' *)
RECURSIVE MatchFrom(_, _, _)
MatchFrom(t, i, q) ==
    /\ i <= Len(t)
    /\ CASE q = 1 -> t[i] # Space /\ MatchFrom(t, i + 1, 2)
         [] q = 2 -> \/ t[i] # Space /\ MatchFrom(t, i + 1, 2)
                     \/ t[i] = "@" /\ MatchFrom(t, i + 1, 3)
         [] q = 3 -> t[i] # Space /\ MatchFrom(t, i + 1, 4)
         [] q = 4 -> \/ t[i] # Space /\ MatchFrom(t, i + 1, 4)
                     \/ t[i] = "." /\ MatchFrom(t, i + 1, 5)
         [] q = 5 -> t[i] # Space

(* RegExp.prototype.test without anchors: a match may start anywhere *)
EmailRegexTest(t) == \E i \in 1..Len(t) : MatchFrom(t, i, 1)

(* validate with the format test left out: any non-blank email passes *)
ValidateNoFormat(f) ==
    LET invalid == {x \in Fields : Trim(f[x]) = <<>>}
    IN [x \in invalid |-> IF x = "name" THEN "Name is required"
                          ELSE IF x = "email" THEN "Email is required"
                          ELSE "Message is required"]

(* validate: the newErrors object *)
Validate(f) ==
    LET invalid == {x \in Fields :
                      \/ Trim(f[x]) = <<>>
                      \/ x = "email" /\ ~EmailRegexTest(f.email)}
    IN [x \in invalid |->
          IF x = "name" THEN "Name is required"
          ELSE IF x = "message" THEN "Message is required"
          ELSE IF Trim(f.email) = <<>> THEN "Email is required"
          ELSE "Invalid email format"]

InitContact ==
    /\ form \in [name : Texts, email : StringsUpTo(EmailChars, MaxEmailLen),
                  message : Texts]
    /\ errors = <<>>
    /\ contactSubmitting = FALSE
    /\ success = FALSE
    /\ contactWrite = NoWrite
    /\ storeMessages = <<>>
    /\ messagesSent = 0
    /\ lastSubmit = NoSubmit

IdleContact ==
    /\ form = EmptyForm
    /\ errors = <<>>
    /\ contactSubmitting = FALSE
    /\ success = FALSE
    /\ contactWrite = NoWrite
    /\ storeMessages = <<>>
    /\ messagesSent = 0
    /\ lastSubmit = NoSubmit

(* handleSubmit up to the await of addDoc; the submit button is disabled
   while submitting *)
HandleSubmit ==
    /\ ~contactSubmitting
    /\ errors' = Validate(form)
    /\ IF DOMAIN errors' = {}
       THEN /\ contactSubmitting' = TRUE
            /\ contactWrite' = [pending |-> TRUE, doc |-> form]
            /\ lastSubmit' = [done |-> TRUE, form |-> form, wrote |-> TRUE]
       ELSE /\ lastSubmit' = [done |-> TRUE, form |-> form, wrote |-> FALSE]
            /\ UNCHANGED <<contactSubmitting, contactWrite>>
    /\ UNCHANGED <<form, success, storeMessages>>
    /\ UNCHANGED <<messagesSent, lastFailure>>
    /\ UNCHANGED notContact

(* addDoc resolves: the store has the document, with an id and a creation time
   of its own; the form is cleared *)
ContactWriteOk ==
    /\ contactWrite.pending
    /\ messagesSent' = messagesSent + 1
    /\ storeMessages' = <<[id |-> messagesSent + 1, createdAt |-> messagesSent + 1,
                           fields |-> contactWrite.doc]>>
                           \o storeMessages
    /\ success' = TRUE
    /\ form' = EmptyForm
    /\ contactSubmitting' = FALSE
    /\ contactWrite' = NoWrite
    /\ UNCHANGED <<errors, lastSubmit>>
    /\ UNCHANGED lastFailure
    /\ UNCHANGED notContact

(* addDoc rejects: the error is logged *)
ContactWriteFails ==
    /\ contactWrite.pending
    /\ contactSubmitting' = FALSE
    /\ contactWrite' = NoWrite
    /\ UNCHANGED <<form, errors, success, storeMessages, lastSubmit>>
    /\ lastFailure' = [op |-> "sendMessage", ended |-> "logged"]
    /\ UNCHANGED messagesSent
    /\ UNCHANGED notContact

(* setTimeout(() => setSuccess(false), 5000) *)
SuccessTimeout ==
    /\ success
    /\ success' = FALSE
    /\ UNCHANGED <<form, errors, contactSubmitting, contactWrite, storeMessages,
                   lastSubmit>>
    /\ UNCHANGED <<messagesSent, lastFailure>>
    /\ UNCHANGED notContact

NextContact ==
    \/ HandleSubmit
    \/ ContactWriteOk
    \/ ContactWriteFails
    \/ SuccessTimeout

(* ------------------------------------------------------------------------*)
(*     THE ADMIN DASHBOARD: projects, pending images, the profile image     *)
(* ------------------------------------------------------------------------*)
(* Both dashboards hold the same state and differ in a few branches, taken  *)
(* on variant.  Of projectForm the title and the description are kept; the  *)
(* tags are treated in the section on tags.                                 *)

MaxProjects == 2                    \* project documents created in one behaviour
MaxDeclines == 1                    \* declined delete dialogs in one behaviour
MaxDeletes == 2                     \* confirmed delete clicks in one behaviour
MaxFiles == 2                       \* files selected in one behaviour

(* an encoded image: the file it was made from, and whether drawImage ran *)
NoImage == [file |-> 0, drawn |-> FALSE]          \* '' or null
EarlierImage == [file |-> 0, drawn |-> TRUE]      \* saved in an earlier session
Files == 1..MaxFiles
FileKinds == {"image", "unreadable", "undecodable"}
UnusedFile == [kind |-> "none", target |-> "none", stage |-> "unused",
               surface |-> "unknown", since |-> 0]

EmptyProjectForm == [title |-> "", description |-> ""]
FilledProjectForm == [title |-> "Demo", description |-> "A demo project"]
ProjectForms == {EmptyProjectForm, FilledProjectForm}

WriteError == "permission-denied"                 \* err.message of a rejected write
ProcessError == "Failed to process image"
SaveError == "Failed to save: permission-denied"  \* 'Failed to save: ' + message
ProjectCreated == "Project created!"
ProjectDeleted == "Project deleted!"
ProfileSaved == "Profile image saved!"

NoCreate == [stage |-> "none", id |-> 0,
             fields |-> [title |-> "", description |-> "", imageUrl |-> NoImage]]
NoProfileWrite == [stage |-> "none", image |-> NoImage]
NoDoc == <<>>                                     \* settings/profile does not exist
ServerTime(t) == [seconds |-> t]

(* settings/profile as an earlier session of either dashboard can have left it *)
ProfileDocs ==
    {NoDoc,
     [x \in {"imageUrl"} |-> EarlierImage],
     [x \in {"profileImageBase64", "updatedAt"} |->
         IF x = "updatedAt" THEN ServerTime(0) ELSE EarlierImage]}

(* the query with orderBy('createdAt', 'asc'): oldest first *)
RECURSIVE OrderByCreatedAtAsc(_)
OrderByCreatedAtAsc(docs) ==
    IF docs = {} THEN <<>>
    ELSE LET oldest == CHOOSE d \in docs : \A o \in docs : d.createdAt <= o.createdAt
         IN <<oldest>> \o OrderByCreatedAtAsc(docs \ {oldest})

(* query(collection(db, 'projects'), orderBy('createdAt', 'desc')) *)
RECURSIVE OrderByCreatedAtDesc(_)
OrderByCreatedAtDesc(docs) ==
    IF docs = {} THEN <<>>
    ELSE LET newest == CHOOSE d \in docs : \A o \in docs : o.createdAt <= d.createdAt
         IN <<newest>> \o OrderByCreatedAtDesc(docs \ {newest})

(* projects.filter(p => p.id !== id) *)
WithoutId(list, id) == SelectSeq(list, LAMBDA p : p.id # id)

(* serverTimestamp() of a write to a document: later than the one it holds *)
LaterThan(old) ==
    IF "updatedAt" \in DOMAIN old THEN old["updatedAt"].seconds + 1 ELSE 1

(* setDoc(doc(db, 'settings', 'profile'), ...): "Page" replaces the document
   by { imageUrl }, "App" merges { profileImageBase64, updatedAt } into it *)
SetProfileDoc(old, image) ==
    IF variant = "Page"
    THEN [x \in {"imageUrl"} |-> image]
    ELSE [x \in DOMAIN old \cup {"profileImageBase64", "updatedAt"} |->
            IF x = "profileImageBase64" THEN image
            ELSE IF x = "updatedAt" THEN ServerTime(LaterThan(old))
            ELSE old[x]]

(* doc.data().field of a snapshot, '' standing for a missing field (both are
   falsy, and the readers below only test for truth) *)
Field(doc, field) == IF field \in DOMAIN doc THEN doc[field] ELSE NoImage

(* HomePage.fetchData on a fresh load: profileImage starts as null and is set
   when settings/profile exists and has a truthy profileImageBase64 *)
HomeProfileImage(doc) ==
    IF doc # NoDoc /\ Field(doc, "profileImageBase64") # NoImage
    THEN doc["profileImageBase64"]
    ELSE NoImage

(* fetchProfileImage of the dashboard on a fresh load: "Page" reads imageUrl,
   "App" reads profileImageBase64; profileImagePreview starts empty *)
FetchProfileImage(doc) ==
    IF variant = "Page"
    THEN IF doc # NoDoc THEN Field(doc, "imageUrl") ELSE NoImage
    ELSE IF doc # NoDoc /\ Field(doc, "profileImageBase64") # NoImage
         THEN doc["profileImageBase64"]
         ELSE NoImage

(* what the promise of resizeImageToBase64 settles to once the image has
   loaded, given what canvas.getContext('2d') returned: "App" rejects on a null
   context; "Page" skips drawImage through ?. and encodes the canvas as it is *)
OnLoadOutcome(f, ctx) ==
    IF variant = "App" /\ ~ctx
    THEN [settled |-> "rejected", image |-> NoImage]
    ELSE [settled |-> "resolved", image |-> [file |-> f, drawn |-> ctx]]

DashboardAdmin ==
    /\ variant \in Variants
    /\ ADMIN_EMAIL = AdminAddress
    /\ authUser = Account(AdminAddress)
    /\ user = Account(AdminAddress)
    /\ loading = FALSE
    /\ isLoggingIn = FALSE
    /\ error = ""
    /\ loginPc = "idle"
    /\ logoutPc = "idle"
    /\ lastLogin = NoLogin
    /\ lastLogout = NoLogout
    /\ lastOp = NoOp

(* the dashboard state of useState, nothing in flight, an empty store *)
IdleDash ==
    /\ projectForm = EmptyProjectForm
    /\ showForm = FALSE
    /\ submitting = FALSE
    /\ successMessage = ""
    /\ imageBase64 = NoImage
    /\ imagePreview = NoImage
    /\ profileImageBase64 = NoImage
    /\ profileImagePreview = NoImage
    /\ savingProfile = FALSE
    /\ profileSuccess = ""
    /\ projects = <<>>
    /\ storeProjects = {}
    /\ storeProfile = NoDoc
    /\ created = 0
    /\ createWrite = NoCreate
    /\ profileWrite = NoProfileWrite
    /\ fetches = {}
    /\ issued = 0
    /\ deletes = {}
    /\ deleteClicks = 0
    /\ pipelines = [f \in Files |-> UnusedFile]
    /\ lastCreated = 0
    /\ refreshed = {}

(* the dashboard right after the admin's session was reported to it: the
   fetchProjects call of the auth callback / effect is in flight *)
InitProjects ==
    /\ projectForm = EmptyProjectForm
    /\ showForm = FALSE
    /\ submitting = FALSE
    /\ successMessage = ""
    /\ imageBase64 = NoImage
    /\ imagePreview = NoImage
    /\ profileImageBase64 = NoImage
    /\ profileImagePreview = NoImage
    /\ savingProfile = FALSE
    /\ profileSuccess = ""
    /\ projects = <<>>
    /\ storeProjects = {}
    /\ storeProfile = NoDoc
    /\ created = 0
    /\ createWrite = NoCreate
    /\ profileWrite = NoProfileWrite
    /\ fetches = {[n |-> 1, by |-> 0, stage |-> "sent", snapshot |-> <<>>]}
    /\ issued = 1
    /\ deletes = {}
    /\ deleteClicks = 0
    /\ pipelines = [f \in Files |-> UnusedFile]
    /\ lastCreated = 0
    /\ refreshed = {}

(* the dashboard with the project form open and the first fetches answered *)
InitImages ==
    /\ projectForm = FilledProjectForm
    /\ showForm = TRUE
    /\ submitting = FALSE
    /\ successMessage = ""
    /\ imageBase64 = NoImage
    /\ imagePreview = NoImage
    /\ profileImageBase64 = NoImage
    /\ profileImagePreview = NoImage
    /\ savingProfile = FALSE
    /\ profileSuccess = ""
    /\ projects = <<>>
    /\ storeProjects = {}
    /\ storeProfile \in ProfileDocs
    /\ created = 0
    /\ createWrite = NoCreate
    /\ profileWrite = NoProfileWrite
    /\ fetches = {}
    /\ issued = 0
    /\ deletes = {}
    /\ deleteClicks = 0
    /\ pipelines = [f \in Files |-> UnusedFile]
    /\ lastCreated = 0
    /\ refreshed = {}

(* ---- the project form ---- *)

(* onClick={() => setShowForm(!showForm)} *)
ToggleForm ==
    /\ showForm' = ~showForm
    /\ UNCHANGED <<projectForm, submitting, successMessage, imageBase64,
                   imagePreview, profileImageBase64, profileImagePreview,
                   savingProfile, profileSuccess, projects, storeProjects,
                   storeProfile, created, createWrite, profileWrite, fetches,
                   issued, deletes, deleteClicks, pipelines, lastCreated,
                   refreshed, error>>
    /\ UNCHANGED lastFailure
    /\ UNCHANGED notDash

(* onChange of the title and description inputs *)
TypeForm(f) ==
    /\ showForm
    /\ f # projectForm
    /\ projectForm' = f
    /\ UNCHANGED <<showForm, submitting, successMessage, imageBase64,
                   imagePreview, profileImageBase64, profileImagePreview,
                   savingProfile, profileSuccess, projects, storeProjects,
                   storeProfile, created, createWrite, profileWrite, fetches,
                   issued, deletes, deleteClicks, pipelines, lastCreated,
                   refreshed, error>>
    /\ UNCHANGED lastFailure
    /\ UNCHANGED notDash

resetForm ==
    /\ projectForm' = EmptyProjectForm
    /\ imageBase64' = NoImage
    /\ imagePreview' = NoImage

(* fetchProjects is called: the query is on its way *)
fetchProjects(by) ==
    /\ issued' = issued + 1
    /\ fetches' = fetches \cup {[n |-> issued + 1, by |-> by, stage |-> "sent",
                                 snapshot |-> <<>>]}

(* a submit button that is not disabled while submitting *)
HandleSubmitProjectAnyTime ==
    /\ showForm
    /\ created < MaxProjects
    /\ IF variant = "App" /\ (projectForm.title = "" \/ projectForm.description = "")
       THEN UNCHANGED <<submitting, error, createWrite>>
       ELSE /\ submitting' = TRUE
            /\ error' = ""
            /\ createWrite' = [stage |-> "sent", id |-> 0,
                               fields |-> [title |-> projectForm.title,
                                           description |-> projectForm.description,
                                           imageUrl |-> imageBase64]]
    /\ UNCHANGED <<projectForm, showForm, successMessage, imageBase64,
                   imagePreview, profileImageBase64, profileImagePreview,
                   savingProfile, profileSuccess, projects, storeProjects,
                   storeProfile, created, profileWrite, fetches, issued,
                   deletes, deleteClicks, pipelines, lastCreated, refreshed>>
    /\ UNCHANGED lastFailure
    /\ UNCHANGED notDash

(* handleSubmitProject up to the await of addDoc; the submit button is
   disabled while submitting.  "App" returns at once when the title or the
   description is empty. *)
HandleSubmitProject ==
    /\ showForm
    /\ ~submitting
    /\ created < MaxProjects
    /\ IF variant = "App" /\ (projectForm.title = "" \/ projectForm.description = "")
       THEN UNCHANGED <<submitting, error, createWrite>>
       ELSE /\ submitting' = TRUE
            /\ error' = ""
            /\ createWrite' = [stage |-> "sent", id |-> 0,
                               fields |-> [title |-> projectForm.title,
                                           description |-> projectForm.description,
                                           imageUrl |-> imageBase64]]
    /\ UNCHANGED <<projectForm, showForm, successMessage, imageBase64,
                   imagePreview, profileImageBase64, profileImagePreview,
                   savingProfile, profileSuccess, projects, storeProjects,
                   storeProfile, created, profileWrite, fetches, issued,
                   deletes, deleteClicks, pipelines, lastCreated, refreshed>>
    /\ UNCHANGED lastFailure
    /\ UNCHANGED notDash

(* the store takes the document: it assigns the id and the creation time *)
CreateApplied ==
    /\ createWrite.stage = "sent"
    /\ created' = created + 1
    /\ storeProjects' = storeProjects \cup
          {[id |-> created + 1, createdAt |-> created + 1,
            title |-> createWrite.fields.title,
            description |-> createWrite.fields.description,
            imageUrl |-> createWrite.fields.imageUrl]}
    /\ createWrite' = [createWrite EXCEPT !.stage = "applied", !.id = created + 1]
    /\ UNCHANGED <<projectForm, showForm, submitting, successMessage,
                   imageBase64, imagePreview, profileImageBase64,
                   profileImagePreview, savingProfile, profileSuccess,
                   projects, storeProfile, profileWrite, fetches, issued,
                   deletes, deleteClicks, pipelines, lastCreated, refreshed,
                   error>>
    /\ UNCHANGED lastFailure
    /\ UNCHANGED notDash

(* addDoc resolves: the rest of the try block, then setSubmitting(false) *)
CreateOk ==
    /\ createWrite.stage = "applied"
    /\ successMessage' = ProjectCreated
    /\ resetForm
    /\ showForm' = FALSE
    /\ fetchProjects(createWrite.id)
    /\ submitting' = FALSE
    /\ lastCreated' = createWrite.id
    /\ createWrite' = NoCreate
    /\ UNCHANGED <<profileImageBase64, profileImagePreview, savingProfile,
                   profileSuccess, projects, storeProjects, storeProfile,
                   created, profileWrite, deletes, deleteClicks, pipelines,
                   refreshed, error>>
    /\ UNCHANGED lastFailure
    /\ UNCHANGED notDash

(* a catch block that also calls resetForm() *)
CreateFailsClearsForm ==
    /\ createWrite.stage = "sent"
    /\ error' = WriteError
    /\ submitting' = FALSE
    /\ createWrite' = NoCreate
    /\ projectForm' = EmptyProjectForm
    /\ imageBase64' = NoImage
    /\ imagePreview' = NoImage
    /\ UNCHANGED <<showForm, successMessage, profileImageBase64, profileImagePreview,
                   savingProfile, profileSuccess, projects, storeProjects,
                   storeProfile, created, profileWrite, fetches, issued,
                   deletes, deleteClicks, pipelines, lastCreated, refreshed>>
    /\ lastFailure' = [op |-> "createProject", ended |-> "shown"]
    /\ UNCHANGED notDash

(* addDoc rejects: the catch block, then setSubmitting(false) *)
CreateFails ==
    /\ createWrite.stage = "sent"
    /\ error' = WriteError
    /\ submitting' = FALSE
    /\ createWrite' = NoCreate
    /\ UNCHANGED <<projectForm, showForm, successMessage, imageBase64,
                   imagePreview, profileImageBase64, profileImagePreview,
                   savingProfile, profileSuccess, projects, storeProjects,
                   storeProfile, created, profileWrite, fetches, issued,
                   deletes, deleteClicks, pipelines, lastCreated, refreshed>>
    /\ lastFailure' = [op |-> "createProject", ended |-> "shown"]
    /\ UNCHANGED notDash

(* setTimeout(() => setSuccessMessage(''), 3000) *)
SuccessMessageTimeout ==
    /\ successMessage # ""
    /\ successMessage' = ""
    /\ UNCHANGED <<projectForm, showForm, submitting, imageBase64,
                   imagePreview, profileImageBase64, profileImagePreview,
                   savingProfile, profileSuccess, projects, storeProjects,
                   storeProfile, created, createWrite, profileWrite, fetches,
                   issued, deletes, deleteClicks, pipelines, lastCreated,
                   refreshed, error>>
    /\ UNCHANGED lastFailure
    /\ UNCHANGED notDash

(* ---- fetchProjects ---- *)

(* the store answers the query with the documents it holds at that moment *)
FetchRead(t) ==
    /\ t \in fetches
    /\ t.stage = "sent"
    /\ fetches' = (fetches \ {t}) \cup
          {[t EXCEPT !.stage = "read",
                     !.snapshot = OrderByCreatedAtDesc(storeProjects)]}
    /\ UNCHANGED <<projectForm, showForm, submitting, successMessage,
                   imageBase64, imagePreview, profileImageBase64,
                   profileImagePreview, savingProfile, profileSuccess,
                   projects, storeProjects, storeProfile, created,
                   createWrite, profileWrite, issued, deletes, deleteClicks,
                   pipelines, lastCreated, refreshed, error>>
    /\ UNCHANGED lastFailure
    /\ UNCHANGED notDash

(* getDocs resolves: setProjects(snapshot.docs.map(...)) *)
FetchDeliver(t) ==
    /\ t \in fetches
    /\ t.stage = "read"
    /\ projects' = t.snapshot
    /\ fetches' = fetches \ {t}
    /\ refreshed' = IF t.by = 0 THEN refreshed ELSE refreshed \cup {t.by}
    /\ UNCHANGED <<projectForm, showForm, submitting, successMessage,
                   imageBase64, imagePreview, profileImageBase64,
                   profileImagePreview, savingProfile, profileSuccess,
                   storeProjects, storeProfile, created, createWrite,
                   profileWrite, issued, deletes, deleteClicks, pipelines,
                   lastCreated, error>>
    /\ UNCHANGED lastFailure
    /\ UNCHANGED notDash

(* getDocs rejects: "App" logs the error in its catch block, in "Page" the
   promise of fetchProjects rejects with nobody awaiting it *)
FetchFails(t) ==
    /\ t \in fetches
    /\ t.stage = "sent"
    /\ fetches' = fetches \ {t}
    /\ UNCHANGED <<projectForm, showForm, submitting, successMessage,
                   imageBase64, imagePreview, profileImageBase64,
                   profileImagePreview, savingProfile, profileSuccess,
                   projects, storeProjects, storeProfile, created,
                   createWrite, profileWrite, issued, deletes, deleteClicks,
                   pipelines, lastCreated, refreshed, error>>
    /\ lastFailure' = [op |-> "fetchProjects", ended |-> IF variant = "App" THEN "logged" ELSE "escaped"]
    /\ UNCHANGED notDash

(* ---- handleDeleteProject ---- *)

(* the delete button of a listed project, confirm() answered with OK: the
   handler keeps the projects of the render it was made in *)
HandleDeleteProject(id) ==
    /\ \E k \in 1..Len(projects) : projects[k].id = id
    /\ deleteClicks < MaxDeletes
    /\ deleteClicks' = deleteClicks + 1
    /\ deletes' = deletes \cup {[n |-> deleteClicks + 1, id |-> id,
                                 closure |-> projects, stage |-> "sent",
                                 found |-> FALSE]}
    /\ UNCHANGED <<projectForm, showForm, submitting, successMessage,
                   imageBase64, imagePreview, profileImageBase64,
                   profileImagePreview, savingProfile, profileSuccess,
                   projects, storeProjects, storeProfile, created,
                   createWrite, profileWrite, fetches, issued, pipelines,
                   lastCreated, refreshed, error>>
    /\ UNCHANGED lastFailure
    /\ UNCHANGED notDash

(* a handler that goes on to deleteDoc whatever confirm() returned *)
DeleteDeclinedAnyway(id) ==
    /\ \E k \in 1..Len(projects) : projects[k].id = id
    /\ declined < MaxDeclines
    /\ declined' = declined + 1
    /\ deletes' = deletes \cup {[n |-> 0, id |-> id, closure |-> projects,
                                 stage |-> "sent", found |-> FALSE]}
    /\ UNCHANGED <<projectForm, showForm, submitting, successMessage,
                   imageBase64, imagePreview, profileImageBase64,
                   profileImagePreview, savingProfile, profileSuccess,
                   projects, storeProjects, storeProfile, created,
                   createWrite, profileWrite, fetches, issued, deleteClicks,
                   pipelines, lastCreated, refreshed>>
    /\ UNCHANGED <<view, authVars, resizeVars, tagVars, contactVars,
                   messageVars, publicVars, lastFailure>>

(* confirm() answered with Cancel: the handler returns *)
DeleteDeclined(id) ==
    /\ \E k \in 1..Len(projects) : projects[k].id = id
    /\ declined < MaxDeclines
    /\ declined' = declined + 1
    /\ UNCHANGED <<view, authVars, resizeVars, tagVars, contactVars, dashVars,
                   messageVars, publicVars, lastFailure>>

(* the store deletes the document, or finds it already gone *)
DeleteApplied(t) ==
    /\ t \in deletes
    /\ t.stage = "sent"
    /\ storeProjects' = {d \in storeProjects : d.id # t.id}
    /\ deletes' = (deletes \ {t}) \cup
          {[t EXCEPT !.stage = "applied",
                     !.found = \E d \in storeProjects : d.id = t.id]}
    /\ UNCHANGED <<projectForm, showForm, submitting, successMessage,
                   imageBase64, imagePreview, profileImageBase64,
                   profileImagePreview, savingProfile, profileSuccess,
                   projects, storeProfile, created, createWrite,
                   profileWrite, fetches, issued, deleteClicks, pipelines,
                   lastCreated, refreshed, error>>
    /\ UNCHANGED lastFailure
    /\ UNCHANGED notDash

(* a deleteDoc that rejects when the document is already gone *)
DeleteOkUnlessMissing(t) ==
    /\ t \in deletes
    /\ t.stage = "applied"
    /\ projects' = IF t.found THEN WithoutId(t.closure, t.id) ELSE projects
    /\ successMessage' = IF t.found THEN ProjectDeleted ELSE successMessage
    /\ error' = IF t.found THEN error ELSE WriteError
    /\ deletes' = deletes \ {t}
    /\ UNCHANGED <<projectForm, showForm, submitting, imageBase64,
                   imagePreview, profileImageBase64, profileImagePreview,
                   savingProfile, profileSuccess, storeProjects,
                   storeProfile, created, createWrite, profileWrite, fetches,
                   issued, deleteClicks, pipelines, lastCreated, refreshed>>
    /\ UNCHANGED lastFailure
    /\ UNCHANGED notDash

(* deleteDoc resolves: setProjects(projects.filter(...)) on the kept list *)
DeleteOk(t) ==
    /\ t \in deletes
    /\ t.stage = "applied"
    /\ projects' = WithoutId(t.closure, t.id)
    /\ successMessage' = ProjectDeleted
    /\ deletes' = deletes \ {t}
    /\ UNCHANGED <<projectForm, showForm, submitting, imageBase64,
                   imagePreview, profileImageBase64, profileImagePreview,
                   savingProfile, profileSuccess, storeProjects,
                   storeProfile, created, createWrite, profileWrite, fetches,
                   issued, deleteClicks, pipelines, lastCreated, refreshed,
                   error>>
    /\ UNCHANGED lastFailure
    /\ UNCHANGED notDash

(* deleteDoc rejects: the catch block *)
DeleteFails(t) ==
    /\ t \in deletes
    /\ t.stage = "sent"
    /\ error' = WriteError
    /\ deletes' = deletes \ {t}
    /\ UNCHANGED <<projectForm, showForm, submitting, successMessage,
                   imageBase64, imagePreview, profileImageBase64,
                   profileImagePreview, savingProfile, profileSuccess,
                   projects, storeProjects, storeProfile, created,
                   createWrite, profileWrite, fetches, issued, deleteClicks,
                   pipelines, lastCreated, refreshed>>
    /\ lastFailure' = [op |-> "deleteProject", ended |-> "shown"]
    /\ UNCHANGED notDash

(* ---- handleImageChange / handleProfileImageChange ---- *)

NextFile == CHOOSE f \in Files : pipelines[f].stage = "unused" /\
                \A g \in Files : g < f => pipelines[g].stage # "unused"

(* a file is chosen in the project form: reader.readAsDataURL(file); since
   records the last project created when the file was chosen *)
HandleImageChange(kind) ==
    /\ showForm
    /\ \E f \in Files : pipelines[f].stage = "unused"
    /\ pipelines' = [pipelines EXCEPT ![NextFile] =
          [kind |-> kind, target |-> "project", stage |-> "reading",
           surface |-> "unknown", since |-> lastCreated]]
    /\ UNCHANGED <<projectForm, showForm, submitting, successMessage,
                   imageBase64, imagePreview, profileImageBase64,
                   profileImagePreview, savingProfile, profileSuccess,
                   projects, storeProjects, storeProfile, created,
                   createWrite, profileWrite, fetches, issued, deletes,
                   deleteClicks, lastCreated, refreshed, error>>
    /\ UNCHANGED lastFailure
    /\ UNCHANGED notDash

(* a file is chosen for the profile image *)
HandleProfileImageChange(kind) ==
    /\ \E f \in Files : pipelines[f].stage = "unused"
    /\ pipelines' = [pipelines EXCEPT ![NextFile] =
          [kind |-> kind, target |-> "profile", stage |-> "reading",
           surface |-> "unknown", since |-> 0]]
    /\ UNCHANGED <<projectForm, showForm, submitting, successMessage,
                   imageBase64, imagePreview, profileImageBase64,
                   profileImagePreview, savingProfile, profileSuccess,
                   projects, storeProjects, storeProfile, created,
                   createWrite, profileWrite, fetches, issued, deletes,
                   deleteClicks, lastCreated, refreshed, error>>
    /\ UNCHANGED lastFailure
    /\ UNCHANGED notDash

(* reader.onload: img.src is set to the data URL *)
ReaderLoads(f) ==
    /\ pipelines[f].stage = "reading"
    /\ pipelines[f].kind # "unreadable"
    /\ pipelines' = [pipelines EXCEPT ![f].stage = "decoding"]
    /\ UNCHANGED <<projectForm, showForm, submitting, successMessage,
                   imageBase64, imagePreview, profileImageBase64,
                   profileImagePreview, savingProfile, profileSuccess,
                   projects, storeProjects, storeProfile, created,
                   createWrite, profileWrite, fetches, issued, deletes,
                   deleteClicks, lastCreated, refreshed, error>>
    /\ UNCHANGED lastFailure
    /\ UNCHANGED notDash

(* the await in the handler throws: "App" catches and sets the error, in
   "Page" the handler's promise rejects with nobody awaiting it *)
HandlerRejected ==
    /\ error' = IF variant = "App" THEN ProcessError ELSE error
    /\ lastFailure' = [op |-> "processImage",
                        ended |-> IF variant = "App" THEN "shown" ELSE "escaped"]
    /\ UNCHANGED <<imageBase64, imagePreview, profileImageBase64,
                   profileImagePreview>>

(* the await in the handler yields the encoded image: both setters run *)
HandlerResolved(target, image) ==
    /\ IF target = "project"
       THEN /\ imageBase64' = image
            /\ imagePreview' = image
            /\ UNCHANGED <<profileImageBase64, profileImagePreview>>
       ELSE /\ profileImageBase64' = image
            /\ profileImagePreview' = image
            /\ UNCHANGED <<imageBase64, imagePreview>>
    /\ UNCHANGED <<error, lastFailure>>

(* reader.onerror: the promise rejects *)
ReaderErrors(f) ==
    /\ pipelines[f].stage = "reading"
    /\ pipelines[f].kind = "unreadable"
    /\ pipelines' = [pipelines EXCEPT ![f].stage = "rejected"]
    /\ HandlerRejected
    /\ UNCHANGED <<projectForm, showForm, submitting, successMessage,
                   savingProfile, profileSuccess, projects, storeProjects,
                   storeProfile, created, createWrite, profileWrite, fetches,
                   issued, deletes, deleteClicks, lastCreated, refreshed>>
    /\ UNCHANGED notDash

(* img.onerror taken for img.onload: the canvas is encoded all the same *)
ImgErrorsEncoded(f) ==
    /\ pipelines[f].stage = "decoding"
    /\ pipelines[f].kind = "undecodable"
    /\ pipelines' = [pipelines EXCEPT ![f].stage = "resolved"]
    /\ HandlerResolved(pipelines[f].target, [file |-> f, drawn |-> FALSE])
    /\ UNCHANGED <<projectForm, showForm, submitting, successMessage,
                   savingProfile, profileSuccess, projects, storeProjects,
                   storeProfile, created, createWrite, profileWrite, fetches,
                   issued, deletes, deleteClicks, lastCreated, refreshed>>
    /\ UNCHANGED notDash

(* img.onerror: the promise rejects *)
ImgErrors(f) ==
    /\ pipelines[f].stage = "decoding"
    /\ pipelines[f].kind = "undecodable"
    /\ pipelines' = [pipelines EXCEPT ![f].stage = "rejected"]
    /\ HandlerRejected
    /\ UNCHANGED <<projectForm, showForm, submitting, successMessage,
                   savingProfile, profileSuccess, projects, storeProjects,
                   storeProfile, created, createWrite, profileWrite, fetches,
                   issued, deletes, deleteClicks, lastCreated, refreshed>>
    /\ UNCHANGED notDash

(* a handler that drops the result of a pipeline when a later file has been
   chosen for the same target *)
ImgLoadsLatestOnly(f, ctx) ==
    /\ pipelines[f].stage = "decoding"
    /\ pipelines[f].kind = "image"
    /\ LET outcome == OnLoadOutcome(f, ctx)
           superseded == \E g \in Files : g > f /\ pipelines[g].target = pipelines[f].target
       IN /\ pipelines' = [pipelines EXCEPT
                 ![f].stage = outcome.settled,
                 ![f].surface = IF ctx THEN "context" ELSE "null"]
          /\ IF outcome.settled = "resolved"
             THEN IF superseded
                  THEN UNCHANGED <<imageBase64, imagePreview, profileImageBase64,
                                   profileImagePreview, error, lastFailure>>
                  ELSE HandlerResolved(pipelines[f].target, outcome.image)
             ELSE HandlerRejected
    /\ UNCHANGED <<projectForm, showForm, submitting, successMessage,
                   savingProfile, profileSuccess, projects, storeProjects,
                   storeProfile, created, createWrite, profileWrite, fetches,
                   issued, deletes, deleteClicks, lastCreated, refreshed>>
    /\ UNCHANGED notDash

(* img.onload, with canvas.getContext('2d') returning a context (ctx) or null *)
ImgLoads(f, ctx) ==
    /\ pipelines[f].stage = "decoding"
    /\ pipelines[f].kind = "image"
    /\ LET outcome == OnLoadOutcome(f, ctx)
       IN /\ pipelines' = [pipelines EXCEPT
                 ![f].stage = outcome.settled,
                 ![f].surface = IF ctx THEN "context" ELSE "null"]
          /\ IF outcome.settled = "resolved"
             THEN HandlerResolved(pipelines[f].target, outcome.image)
             ELSE HandlerRejected
    /\ UNCHANGED <<projectForm, showForm, submitting, successMessage,
                   savingProfile, profileSuccess, projects, storeProjects,
                   storeProfile, created, createWrite, profileWrite, fetches,
                   issued, deletes, deleteClicks, lastCreated, refreshed>>
    /\ UNCHANGED notDash

(* ---- handleSaveProfileImage ---- *)

(* up to the await of setDoc; the save button is disabled while saving *)
HandleSaveProfileImage ==
    /\ ~savingProfile
    /\ profileImageBase64 # NoImage
    /\ savingProfile' = TRUE
    /\ profileWrite' = [stage |-> "sent", image |-> profileImageBase64]
    /\ UNCHANGED <<projectForm, showForm, submitting, successMessage,
                   imageBase64, imagePreview, profileImageBase64,
                   profileImagePreview, profileSuccess, projects,
                   storeProjects, storeProfile, created, createWrite,
                   fetches, issued, deletes, deleteClicks, pipelines,
                   lastCreated, refreshed, error>>
    /\ UNCHANGED lastFailure
    /\ UNCHANGED notDash

(* the store takes the write *)
ProfileWriteApplied ==
    /\ profileWrite.stage = "sent"
    /\ storeProfile' = SetProfileDoc(storeProfile, profileWrite.image)
    /\ profileWrite' = [profileWrite EXCEPT !.stage = "applied"]
    /\ UNCHANGED <<projectForm, showForm, submitting, successMessage,
                   imageBase64, imagePreview, profileImageBase64,
                   profileImagePreview, savingProfile, profileSuccess,
                   projects, storeProjects, created, createWrite, fetches,
                   issued, deletes, deleteClicks, pipelines, lastCreated,
                   refreshed, error>>
    /\ UNCHANGED lastFailure
    /\ UNCHANGED notDash

(* setDoc resolves *)
ProfileSaveOk ==
    /\ profileWrite.stage = "applied"
    /\ profileSuccess' = ProfileSaved
    /\ profileImageBase64' = NoImage
    /\ savingProfile' = FALSE
    /\ profileWrite' = NoProfileWrite
    /\ UNCHANGED <<projectForm, showForm, submitting, successMessage,
                   imageBase64, imagePreview, profileImagePreview, projects,
                   storeProjects, storeProfile, created, createWrite,
                   fetches, issued, deletes, deleteClicks, pipelines,
                   lastCreated, refreshed, error>>
    /\ UNCHANGED lastFailure
    /\ UNCHANGED notDash

(* setDoc rejects: the catch block *)
ProfileSaveFails ==
    /\ profileWrite.stage = "sent"
    /\ error' = IF variant = "App" THEN SaveError ELSE WriteError
    /\ savingProfile' = FALSE
    /\ profileWrite' = NoProfileWrite
    /\ UNCHANGED <<projectForm, showForm, submitting, successMessage,
                   imageBase64, imagePreview, profileImageBase64,
                   profileImagePreview, profileSuccess, projects,
                   storeProjects, storeProfile, created, createWrite,
                   fetches, issued, deletes, deleteClicks, pipelines,
                   lastCreated, refreshed>>
    /\ lastFailure' = [op |-> "saveProfileImage", ended |-> "shown"]
    /\ UNCHANGED notDash

(* setTimeout(() => setProfileSuccess(''), 3000) *)
ProfileSuccessTimeout ==
    /\ profileSuccess # ""
    /\ profileSuccess' = ""
    /\ UNCHANGED <<projectForm, showForm, submitting, successMessage,
                   imageBase64, imagePreview, profileImageBase64,
                   profileImagePreview, savingProfile, projects,
                   storeProjects, storeProfile, created, createWrite,
                   profileWrite, fetches, issued, deletes, deleteClicks,
                   pipelines, lastCreated, refreshed, error>>
    /\ UNCHANGED lastFailure
    /\ UNCHANGED notDash

NextProjects ==
    \/ ToggleForm
    \/ \E f \in ProjectForms : TypeForm(f)
    \/ HandleSubmitProject
    \/ CreateApplied
    \/ CreateOk
    \/ CreateFails
    \/ SuccessMessageTimeout
    \/ \E t \in fetches : FetchRead(t)
    \/ \E t \in fetches : FetchDeliver(t)
    \/ \E t \in fetches : FetchFails(t)
    \/ \E id \in 1..MaxProjects : HandleDeleteProject(id)
    \/ \E id \in 1..MaxProjects : DeleteDeclined(id)
    \/ \E t \in deletes : DeleteApplied(t)
    \/ \E t \in deletes : DeleteOk(t)
    \/ \E t \in deletes : DeleteFails(t)

(* The steps that complete a fetchProjects call and the timer that clears
   successMessage write projects, fetches, refreshed and successMessage only,
   which no step below reads: they are left to NextProjects. *)
NextImages ==
    \/ \E kind \in FileKinds : HandleImageChange(kind)
    \/ \E kind \in FileKinds : HandleProfileImageChange(kind)
    \/ \E f \in Files : ReaderLoads(f)
    \/ \E f \in Files : ReaderErrors(f)
    \/ \E f \in Files : ImgErrors(f)
    \/ \E f \in Files, ctx \in BOOLEAN : ImgLoads(f, ctx)
    \/ ToggleForm
    \/ \E f \in ProjectForms : TypeForm(f)
    \/ HandleSubmitProject
    \/ CreateApplied
    \/ CreateOk
    \/ CreateFails
    \/ HandleSaveProfileImage
    \/ ProfileWriteApplied
    \/ ProfileSaveOk
    \/ ProfileSaveFails
    \/ ProfileSuccessTimeout

(* ------------------------------------------------------------------------*)
(*        THE ADMIN DASHBOARD: the messages tab (AdminDashboardPage)        *)
(* ------------------------------------------------------------------------*)

MaxMessages == 2                    \* message documents sent in one behaviour
MaxMessageDeletes == 2              \* confirmed delete clicks on messages

MessageDeleted == "Message deleted!"
VisitorForm == [name |-> <<"a">>, email |-> <<"a", "@", "a", ".", "a">>,
                message |-> <<"a">>]

Range(s) == {s[k] : k \in 1..Len(s)}

IdleMessages ==
    /\ messages = <<>>
    /\ messageFetches = {}
    /\ messageDeletes = {}
    /\ messageDeleteClicks = 0

(* the dashboard right after the admin's session was reported to it: the
   fetchMessages call of the effect on [user] is in flight *)
InitMessages ==
    /\ messages = <<>>
    /\ messageFetches = {[n |-> 1, stage |-> "sent", snapshot |-> <<>>]}
    /\ messageDeletes = {}
    /\ messageDeleteClicks = 0

(* a visitor's contact form has sent a message: the store takes the document *)
VisitorSends ==
    /\ messagesSent < MaxMessages
    /\ messagesSent' = messagesSent + 1
    /\ storeMessages' = <<[id |-> messagesSent + 1, createdAt |-> messagesSent + 1,
                           fields |-> VisitorForm]>> \o storeMessages
    /\ UNCHANGED <<messages, messageFetches, messageDeletes, messageDeleteClicks,
                   error, successMessage, lastFailure>>
    /\ UNCHANGED notMessages

(* the store answers the query with the documents it holds at that moment *)
FetchMessagesRead(t) ==
    /\ t \in messageFetches
    /\ t.stage = "sent"
    /\ messageFetches' = (messageFetches \ {t}) \cup
          {[t EXCEPT !.stage = "read",
                     !.snapshot = OrderByCreatedAtDesc(Range(storeMessages))]}
    /\ UNCHANGED <<messages, messageDeletes, messageDeleteClicks, storeMessages,
                   messagesSent, error, successMessage, lastFailure>>
    /\ UNCHANGED notMessages

(* getDocs resolves: setMessages(snap.docs.map(...)) *)
FetchMessagesDeliver(t) ==
    /\ t \in messageFetches
    /\ t.stage = "read"
    /\ messages' = t.snapshot
    /\ messageFetches' = messageFetches \ {t}
    /\ UNCHANGED <<messageDeletes, messageDeleteClicks, storeMessages, messagesSent,
                   error, successMessage, lastFailure>>
    /\ UNCHANGED notMessages

(* getDocs rejects: the catch block of fetchMessages logs a note *)
FetchMessagesFails(t) ==
    /\ t \in messageFetches
    /\ t.stage = "sent"
    /\ messageFetches' = messageFetches \ {t}
    /\ lastFailure' = [op |-> "fetchMessages", ended |-> "logged"]
    /\ UNCHANGED <<messages, messageDeletes, messageDeleteClicks, storeMessages,
                   messagesSent, error, successMessage>>
    /\ UNCHANGED notMessages

(* the delete button of a listed message, confirm() answered with OK: the
   handler keeps the messages of the render it was made in *)
HandleDeleteMessage(id) ==
    /\ variant = "Page"
    /\ \E k \in 1..Len(messages) : messages[k].id = id
    /\ messageDeleteClicks < MaxMessageDeletes
    /\ messageDeleteClicks' = messageDeleteClicks + 1
    /\ messageDeletes' = messageDeletes \cup
          {[n |-> messageDeleteClicks + 1, id |-> id, closure |-> messages,
            stage |-> "sent", found |-> FALSE]}
    /\ UNCHANGED <<messages, messageFetches, storeMessages, messagesSent, error,
                   successMessage, lastFailure>>
    /\ UNCHANGED notMessages

(* confirm() answered with Cancel: the handler returns *)
DeleteMessageDeclined(id) ==
    /\ variant = "Page"
    /\ \E k \in 1..Len(messages) : messages[k].id = id
    /\ declined < MaxDeclines
    /\ declined' = declined + 1
    /\ UNCHANGED <<view, authVars, resizeVars, tagVars, contactVars, dashVars,
                   messageVars, publicVars, lastFailure>>

(* the store deletes the document, or finds it already gone *)
DeleteMessageApplied(t) ==
    /\ t \in messageDeletes
    /\ t.stage = "sent"
    /\ storeMessages' = WithoutId(storeMessages, t.id)
    /\ messageDeletes' = (messageDeletes \ {t}) \cup
          {[t EXCEPT !.stage = "applied",
                     !.found = \E d \in Range(storeMessages) : d.id = t.id]}
    /\ UNCHANGED <<messages, messageFetches, messageDeleteClicks, messagesSent,
                   error, successMessage, lastFailure>>
    /\ UNCHANGED notMessages

(* deleteDoc resolves: setMessages(messages.filter(...)) on the kept list *)
DeleteMessageOk(t) ==
    /\ t \in messageDeletes
    /\ t.stage = "applied"
    /\ messages' = WithoutId(t.closure, t.id)
    /\ successMessage' = MessageDeleted
    /\ messageDeletes' = messageDeletes \ {t}
    /\ UNCHANGED <<messageFetches, messageDeleteClicks, storeMessages, messagesSent,
                   error, lastFailure>>
    /\ UNCHANGED notMessages

(* deleteDoc rejects: the catch block *)
DeleteMessageFails(t) ==
    /\ t \in messageDeletes
    /\ t.stage = "sent"
    /\ error' = WriteError
    /\ lastFailure' = [op |-> "deleteMessage", ended |-> "shown"]
    /\ messageDeletes' = messageDeletes \ {t}
    /\ UNCHANGED <<messages, messageFetches, messageDeleteClicks, storeMessages,
                   messagesSent, successMessage>>
    /\ UNCHANGED notMessages

NextMessages ==
    \/ VisitorSends
    \/ \E t \in messageFetches : FetchMessagesRead(t)
    \/ \E t \in messageFetches : FetchMessagesDeliver(t)
    \/ \E t \in messageFetches : FetchMessagesFails(t)
    \/ \E id \in 1..MaxMessages : HandleDeleteMessage(id)
    \/ \E id \in 1..MaxMessages : DeleteMessageDeclined(id)
    \/ \E t \in messageDeletes : DeleteMessageApplied(t)
    \/ \E t \in messageDeletes : DeleteMessageOk(t)
    \/ \E t \in messageDeletes : DeleteMessageFails(t)
    \/ SuccessMessageTimeout

(* ------------------------------------------------------------------------*)
(*              THE VISITOR'S PAGES: ProjectsPage and HomePage              *)
(* ------------------------------------------------------------------------*)

MaxPublicDocs == 3                  \* project documents the store can hold

(* the project documents admins create and delete while a visitor's page is
   open *)
PublicDocs ==
    {[id |-> k, createdAt |-> k, title |-> FilledProjectForm.title,
      description |-> FilledProjectForm.description, imageUrl |-> NoImage] :
        k \in 1..MaxPublicDocs}

(* a query of a page: "sent" until the store answers, "read" once the snapshot
   exists; HomePage.fetchData is at "profile" while its getDoc is in flight;
   failedAt names the read that threw *)
NoQuery == [stage |-> "none", snapshot |-> <<>>, failedAt |-> "none"]
QuerySent == [NoQuery EXCEPT !.stage = "sent"]
ProfileReadSent == [NoQuery EXCEPT !.stage = "profile"]

(* neither page is mounted: the values of useState *)
IdlePublic ==
    /\ pageLoading = TRUE
    /\ pageProjects = <<>>
    /\ pageFetch = NoQuery
    /\ homeProfileImage = NoImage
    /\ homeProjects = <<>>
    /\ homeFetch = NoQuery

(* the dashboard is not mounted in the visitor's browser; the store holds what
   the admin's sessions have left *)
VisitorStore ==
    /\ projectForm = EmptyProjectForm
    /\ showForm = FALSE
    /\ submitting = FALSE
    /\ successMessage = ""
    /\ imageBase64 = NoImage
    /\ imagePreview = NoImage
    /\ profileImageBase64 = NoImage
    /\ profileImagePreview = NoImage
    /\ savingProfile = FALSE
    /\ profileSuccess = ""
    /\ projects = <<>>
    /\ storeProjects \in SUBSET PublicDocs
    /\ storeProfile \in ProfileDocs
    /\ created = 0
    /\ createWrite = NoCreate
    /\ profileWrite = NoProfileWrite
    /\ fetches = {}
    /\ issued = 0
    /\ deletes = {}
    /\ deleteClicks = 0
    /\ pipelines = [f \in Files |-> UnusedFile]
    /\ lastCreated = 0
    /\ refreshed = {}

\* what the steps of a visitor's page leave alone, besides the page's own state
notPublic == <<view, authVars, resizeVars, tagVars, contactVars, messageVars,
               declined, projectForm, showForm, submitting, successMessage,
               imageBase64, imagePreview, profileImageBase64,
               profileImagePreview, savingProfile, profileSuccess, projects,
               storeProfile, created, createWrite, profileWrite, fetches,
               issued, deletes, deleteClicks, pipelines, lastCreated,
               refreshed>>

(* an admin's addDoc / deleteDoc reaches the store while the page is open *)
StoreProjectAdded(d) ==
    /\ d \notin storeProjects
    /\ storeProjects' = storeProjects \cup {d}
    /\ UNCHANGED <<publicVars, lastFailure>>
    /\ UNCHANGED notPublic

StoreProjectRemoved(d) ==
    /\ d \in storeProjects
    /\ storeProjects' = storeProjects \ {d}
    /\ UNCHANGED <<publicVars, lastFailure>>
    /\ UNCHANGED notPublic

(* ---- ProjectsPage ---- *)

(* ProjectsPage after its first render: useState([]), useState(true), and the
   mount effect has called fetchProjects, whose getDocs is in flight *)
InitProjectsPage ==
    /\ pageLoading = TRUE
    /\ pageProjects = <<>>
    /\ pageFetch = QuerySent
    /\ homeProfileImage = NoImage
    /\ homeProjects = <<>>
    /\ homeFetch = NoQuery

(* the store answers the query *)
PageFetchRead ==
    /\ pageFetch.stage = "sent"
    /\ pageFetch' = [pageFetch EXCEPT !.stage = "read",
                                      !.snapshot = OrderByCreatedAtDesc(storeProjects)]
    /\ UNCHANGED <<pageLoading, pageProjects, homeProfileImage, homeProjects,
                   homeFetch, storeProjects, lastFailure>>
    /\ UNCHANGED notPublic

(* the failure branch with setLoading(false) inside the try block: the catch
   leaves the flag *)
PageFetchFailsInsideTry ==
    /\ pageFetch.stage = "sent"
    /\ pageFetch' = [pageFetch EXCEPT !.stage = "failed", !.failedAt = "projects"]
    /\ lastFailure' = [op |-> "fetchProjects", ended |-> "logged"]
    /\ UNCHANGED <<pageLoading, pageProjects, homeProfileImage, homeProjects,
                   homeFetch, storeProjects>>
    /\ UNCHANGED notPublic

(* getDocs resolves: setProjects(projectsData), then setLoading(false) *)
PageFetchDeliver ==
    /\ pageFetch.stage = "read"
    /\ pageProjects' = pageFetch.snapshot
    /\ pageLoading' = FALSE
    /\ pageFetch' = [pageFetch EXCEPT !.stage = "done"]
    /\ UNCHANGED <<homeProfileImage, homeProjects, homeFetch, storeProjects,
                   lastFailure>>
    /\ UNCHANGED notPublic

(* getDocs rejects: the catch logs the error, then setLoading(false) *)
PageFetchFails ==
    /\ pageFetch.stage = "sent"
    /\ pageFetch' = [pageFetch EXCEPT !.stage = "failed", !.failedAt = "projects"]
    /\ pageLoading' = FALSE
    /\ lastFailure' = [op |-> "fetchProjects", ended |-> "logged"]
    /\ UNCHANGED <<pageProjects, homeProfileImage, homeProjects, homeFetch,
                   storeProjects>>
    /\ UNCHANGED notPublic

NextProjectsPage ==
    \/ PageFetchRead
    \/ PageFetchDeliver
    \/ PageFetchFails
    \/ \E d \in PublicDocs : StoreProjectAdded(d)
    \/ \E d \in PublicDocs : StoreProjectRemoved(d)

(* ---- HomePage ---- *)

(* HomePage after its first render: useState(null), useState([]), and the
   mount effect has called fetchData, whose getDoc is in flight *)
InitHome ==
    /\ pageLoading = TRUE
    /\ pageProjects = <<>>
    /\ pageFetch = NoQuery
    /\ homeProfileImage = NoImage
    /\ homeProjects = <<>>
    /\ homeFetch = ProfileReadSent

(* getDoc resolves: setProfileImage when the document exists and its
   profileImageBase64 is truthy; then the project query is issued *)
HomeProfileRead ==
    /\ homeFetch.stage = "profile"
    /\ homeProfileImage' =
          IF storeProfile # NoDoc /\ Field(storeProfile, "profileImageBase64") # NoImage
          THEN HomeProfileImage(storeProfile)
          ELSE homeProfileImage
    /\ homeFetch' = [homeFetch EXCEPT !.stage = "sent"]
    /\ UNCHANGED <<pageLoading, pageProjects, pageFetch, homeProjects,
                   storeProjects, lastFailure>>
    /\ UNCHANGED notPublic

(* the failure branch with the two reads in try blocks of their own: the
   profile read's error is logged and the project query issued all the same *)
HomeProfileFailsThenQueries ==
    /\ homeFetch.stage = "profile"
    /\ homeFetch' = [homeFetch EXCEPT !.stage = "sent", !.failedAt = "profile"]
    /\ lastFailure' = [op |-> "fetchData", ended |-> "logged"]
    /\ UNCHANGED <<pageLoading, pageProjects, pageFetch, homeProfileImage,
                   homeProjects, storeProjects>>
    /\ UNCHANGED notPublic

(* getDoc rejects: the catch logs the error; the query is never issued *)
HomeProfileFails ==
    /\ homeFetch.stage = "profile"
    /\ homeFetch' = [homeFetch EXCEPT !.stage = "failed", !.failedAt = "profile"]
    /\ lastFailure' = [op |-> "fetchData", ended |-> "logged"]
    /\ UNCHANGED <<pageLoading, pageProjects, pageFetch, homeProfileImage,
                   homeProjects, storeProjects>>
    /\ UNCHANGED notPublic

(* the store answers the project query *)
HomeProjectsRead ==
    /\ homeFetch.stage = "sent"
    /\ homeFetch' = [homeFetch EXCEPT !.stage = "read",
                                      !.snapshot = OrderByCreatedAtDesc(storeProjects)]
    /\ UNCHANGED <<pageLoading, pageProjects, pageFetch, homeProfileImage,
                   homeProjects, storeProjects, lastFailure>>
    /\ UNCHANGED notPublic

(* getDocs resolves: setProjects(snapshot.docs.map(...)) *)
HomeProjectsDeliver ==
    /\ homeFetch.stage = "read"
    /\ homeProjects' = homeFetch.snapshot
    /\ homeFetch' = [homeFetch EXCEPT !.stage = "done"]
    /\ UNCHANGED <<pageLoading, pageProjects, pageFetch, homeProfileImage,
                   storeProjects, lastFailure>>
    /\ UNCHANGED notPublic

(* getDocs rejects: the catch logs the error *)
HomeProjectsFails ==
    /\ homeFetch.stage = "sent"
    /\ homeFetch' = [homeFetch EXCEPT !.stage = "failed", !.failedAt = "projects"]
    /\ lastFailure' = [op |-> "fetchData", ended |-> "logged"]
    /\ UNCHANGED <<pageLoading, pageProjects, pageFetch, homeProfileImage,
                   homeProjects, storeProjects>>
    /\ UNCHANGED notPublic

NextHome ==
    \/ HomeProfileRead
    \/ HomeProfileFails
    \/ HomeProjectsRead
    \/ HomeProjectsDeliver
    \/ HomeProjectsFails
    \/ \E d \in PublicDocs : StoreProjectAdded(d)
    \/ \E d \in PublicDocs : StoreProjectRemoved(d)

(* ------------------------------------------------------------------------*)
(*                     CLAIMS ABOUT THE IDENTITY GATE                      *)
(* ------------------------------------------------------------------------*)

LoginReturned == lastLogin.account.signedIn /\ lastLogin.signOut # "pending"

\* C1: whenever loginWithGoogle has returned after a provider sign-in, an
\* account with the admin email got {user, error: null} and the session is
\* still that account; any other account had signOut invoked, got
\* {user: null, error: 'Access denied...'} and the session is signed out.
C1_AdminGate ==
    LoginReturned =>
        IF lastLogin.account.email = ADMIN_EMAIL
        THEN /\ lastLogin.result = [user |-> lastLogin.account, error |-> NULL]
             /\ lastLogin.session = lastLogin.account
        ELSE /\ lastLogin.signOut # "none"
             /\ lastLogin.result = [user |-> NoUser, error |-> AccessDenied]
             /\ lastLogin.session = NoUser

\* C2: in every reachable state the dashboard's user is null or an account
\* whose email is the admin email.
C2_NoIntermediateState ==
    user.signedIn => user.email = ADMIN_EMAIL

\* C3: every store operation the dashboard issued was issued while its user
\* was an account whose email is the admin email.
C3_AdminOpsOnlyByAdmin ==
    lastOp.op # "none" => (lastOp.by.signedIn /\ lastOp.by.email = ADMIN_EMAIL)

(* ------------------------------------------------------------------------*)
(*                   CLAIMS ABOUT THE OUTPUT DIMENSIONS                    *)
(* ------------------------------------------------------------------------*)

Drawn == resizePc = "drawn"

Abs(x) == IF x < 0 THEN -x ELSE x

(* the exact common scale factor num / den the policy asks for *)
WidthLimited == maxWidth * imgHeight <= maxHeight * imgWidth
ScaleNum == IF policy = "single" \/ WidthLimited THEN maxWidth ELSE maxHeight
ScaleDen == IF policy = "single" \/ WidthLimited THEN imgWidth ELSE imgHeight

(* each output dimension is within one pixel of the input dimension times
   the common scale factor *)
Proportional ==
    /\ Abs(canvasWidth * ScaleDen - imgWidth * ScaleNum) <= ScaleDen
    /\ Abs(canvasHeight * ScaleDen - imgHeight * ScaleNum) <= ScaleDen

C5_NoUpscaling ==
    (Drawn /\ imgWidth <= maxWidth /\ (policy = "dual" => imgHeight <= maxHeight)) =>
        (canvasWidth = imgWidth /\ canvasHeight = imgHeight)

\* witness: a small image went through each form
C5_Witness ==
    /\ Drawn
    /\ policy = "single"
    /\ imgWidth < maxWidth
    /\ imgHeight > imgWidth
    /\ canvasHeight = imgHeight

(* ------------------------------------------------------------------------*)
(*                       CLAIMS ABOUT THE CONTACT FORM                     *)
(* ------------------------------------------------------------------------*)

Blank(t) == \A i \in 1..Len(t) : t[i] = Space

(* some '@' with a non-space before it, then a run of one or more non-spaces,
   then a '.', then a non-space *)
HasEmailShape(t) ==
    \E a \in 1..Len(t), d \in 1..Len(t) :
        /\ t[a] = "@" /\ t[d] = "."
        /\ a >= 2 /\ t[a - 1] # Space
        /\ d >= a + 2 /\ \A k \in (a + 1)..(d - 1) : t[k] # Space
        /\ d + 1 <= Len(t) /\ t[d + 1] # Space

InvalidFields(f) ==
    {x \in {"name", "message"} : Blank(f[x])}
        \cup (IF HasEmailShape(f.email) THEN {} ELSE {"email"})

\* C8: a message document is handed to the store, and is in the store, only
\* when name, email and message are non-blank and the email has the
\* local@domain.tld shape; a handleSubmit call on any other form issues no
\* write and records an error for exactly the fields that are not acceptable.
C8_WriteOnlyWhenValid ==
    /\ contactWrite.pending => InvalidFields(contactWrite.doc) = {}
    /\ \A k \in 1..Len(storeMessages) : InvalidFields(storeMessages[k].fields) = {}
    /\ lastSubmit.done =>
          /\ lastSubmit.wrote <=> InvalidFields(lastSubmit.form) = {}
          /\ DOMAIN errors = InvalidFields(lastSubmit.form)
          /\ ~lastSubmit.wrote => ~contactWrite.pending

\* C8 witness: a form whose only fault is an email without a '.', like
\* 'not-an-email', was submitted: the email error is recorded, nothing is
\* written
C8_Witness ==
    /\ lastSubmit.done
    /\ ~lastSubmit.wrote
    /\ lastSubmit.form = [name |-> <<"a">>, email |-> <<"a", "@", "a">>,
                          message |-> <<"a">>]
    /\ DOMAIN errors = {"email"}
    /\ errors["email"] = "Invalid email format"
    /\ ~contactWrite.pending
    /\ storeMessages = <<>>

(* ------------------------------------------------------------------------*)
(*                       CLAIMS ABOUT THE STORED TAGS                      *)
(* ------------------------------------------------------------------------*)

(* the positions that delimit the comma-separated pieces of t *)
Cuts(t) == {0, Len(t) + 1} \cup {i \in 1..Len(t) : t[i] = ","}

(* the first positions of the pieces of t that have a non-space character *)
PieceStarts(t) ==
    {c + 1 : c \in {c \in Cuts(t) \ {Len(t) + 1} :
        \E i \in (c + 1)..Len(t) :
            /\ t[i] # Space
            /\ \A j \in (c + 1)..i : t[j] # ","}}

(* the piece of t that starts at position s, without the spaces around it *)
TrimmedPiece(t, s) ==
    LET end == CHOOSE c \in Cuts(t) : c >= s /\ \A j \in s..(c - 1) : t[j] # ","
        inked == {i \in s..(end - 1) : t[i] # Space}
        lo == CHOOSE i \in inked : \A j \in inked : i <= j
        hi == CHOOSE i \in inked : \A j \in inked : i >= j
    IN SubSeq(t, lo, hi)

ExpectedTags(t) ==
    LET starts == PieceStarts(t)
        nth(k) == CHOOSE x \in starts : Cardinality({y \in starts : y < x}) = k - 1
    IN [k \in 1..Cardinality(starts) |-> TrimmedPiece(t, nth(k))]

\* C9: the tags handed to the store are the pieces of the input between
\* commas, each without the spaces around it, the blank pieces left out, in
\* the order of the input; no stored tag is empty, starts or ends with a
\* space, or holds a comma.
C9_TagsStored ==
    tagsPc = "stored" =>
        /\ storedTags = ExpectedTags(tagsInput)
        /\ \A k \in 1..Len(storedTags) :
              LET tag == storedTags[k]
              IN /\ tag # <<>>
                 /\ tag[1] # Space
                 /\ tag[Len(tag)] # Space
                 /\ \A i \in 1..Len(tag) : tag[i] # ","

\* C9 witness: the input 'a,, b' (an empty piece, a piece with a leading
\* space) was stored as ['a', 'b']
C9_Witness ==
    /\ tagsPc = "stored"
    /\ tagsInput = <<"a", ",", ",", Space, "b">>
    /\ storedTags = <<(<<"a">>), (<<"b">>)>>

(* ------------------------------------------------------------------------*)
(*                     CLAIMS ABOUT THE IMAGE PIPELINE                     *)
(* ------------------------------------------------------------------------*)

pendingImages == <<imageBase64, imagePreview, profileImageBase64, profileImagePreview>>

Malformed(f) == pipelines[f].kind \in {"unreadable", "undecodable"}

(* no pending image, no write in flight and no stored document holds an image
   made from file f *)
NowhereKept(f) ==
    /\ \A k \in 1..4 : pendingImages[k].file # f
    /\ createWrite.fields.imageUrl.file # f
    /\ profileWrite.image.file # f
    /\ \A d \in storeProjects : d.imageUrl.file # f
    /\ \A x \in DOMAIN storeProfile \ {"updatedAt"} : storeProfile[x].file # f

(* a step in which the pipeline of a malformed file settles leaves the four
   pending image states as they were *)
MalformedSettlesQuietly ==
    \A f \in Files :
        Malformed(f) /\ pipelines[f].stage \in {"reading", "decoding"}
                     /\ pipelines'[f].stage \in {"resolved", "rejected"}
            => UNCHANGED pendingImages

\* C6: the pipeline of a file that cannot be read or decoded never resolves,
\* the step in which it rejects leaves imageBase64, imagePreview,
\* profileImageBase64 and profileImagePreview unchanged, and no pending image,
\* write in flight or stored document ever holds an image made from that file.
C6_MalformedRejected ==
    /\ [](\A f \in Files : Malformed(f) =>
            pipelines[f].stage # "resolved" /\ NowhereKept(f))
    /\ [][MalformedSettlesQuietly]_vars

\* C6 witness: the second file chosen for the project was undecodable and
\* its pipeline rejected, the image of the first file is still the pending one
C6_Witness ==
    /\ pipelines[2].kind = "undecodable"
    /\ pipelines[2].target = "project"
    /\ pipelines[2].stage = "rejected"
    /\ imageBase64 = [file |-> 1, drawn |-> TRUE]
    /\ imagePreview = [file |-> 1, drawn |-> TRUE]

\* C7: when canvas.getContext('2d') returned null for a file, its pipeline
\* rejected, and no pending image, write in flight or stored document holds
\* an image made from that file.
C7_NullContextRejected ==
    \A f \in Files :
        pipelines[f].surface = "null" =>
            pipelines[f].stage = "rejected" /\ NowhereKept(f)

(* ------------------------------------------------------------------------*)
(*                    CLAIMS ABOUT THE DASHBOARD'S LIST                    *)
(* ------------------------------------------------------------------------*)

(* the project whose create resolved last is in the store and is its newest
   document, the fetchProjects call of that create has set the list, and no
   fetchProjects call is in flight *)
CreatedAndRefreshed ==
    /\ lastCreated # 0
    /\ \E d \in storeProjects : d.id = lastCreated
    /\ \A d \in storeProjects : d.createdAt <= lastCreated
    /\ createWrite = NoCreate
    /\ lastCreated \in refreshed
    /\ fetches = {}

\* C10: once a project has been created and the refresh of that create, and
\* every other fetch, has completed, the dashboard's list starts with that
\* project.
C10_NewProjectFirst ==
    CreatedAndRefreshed => projects # <<>> /\ projects[1].id = lastCreated

(* ------------------------------------------------------------------------*)
(*                     CLAIMS ABOUT THE ORDER OF LISTS                     *)
(* ------------------------------------------------------------------------*)

Descending(list) ==
    \A i \in 1..Len(list), j \in 1..Len(list) :
        i < j => list[i].createdAt > list[j].createdAt

\* C11: in every reachable state the dashboard's project list and its message
\* list are in strictly descending order of creation time.
C11_ListsDescending ==
    /\ Descending(projects)
    /\ Descending(messages)

\* C11 witness: two projects were created, the list was refreshed, a delete
\* was confirmed, and the list holds both projects
C11_Witness ==
    /\ Len(projects) = 2
    /\ projects[1].createdAt = 2
    /\ deleteClicks > 0

(* ------------------------------------------------------------------------*)
(*                         CLAIMS ABOUT DELETE                             *)
(* ------------------------------------------------------------------------*)

(* a delete call whose document was already gone when the store applied it *)
FoundNothing(t) == t.stage = "applied" /\ ~t.found

(* the list is what an earlier delete of the same id on the same render left *)
LeftByEarlierDelete(list, t) == list = WithoutId(t.closure, t.id)

RepeatedProjectDelete ==
    \A t \in deletes :
        /\ (/\ t.stage = "sent"
            /\ ~\E d \in storeProjects : d.id = t.id
            /\ [t EXCEPT !.stage = "applied"] \in deletes')
           => storeProjects' = storeProjects /\ error' = error
        /\ (FoundNothing(t) /\ t \notin deletes')
           => /\ error' = error
              /\ lastFailure' = lastFailure
              /\ successMessage' = ProjectDeleted
              /\ storeProjects' = storeProjects
              /\ LeftByEarlierDelete(projects, t) => projects' = projects

RepeatedMessageDelete ==
    \A t \in messageDeletes :
        /\ (/\ t.stage = "sent"
            /\ ~\E d \in Range(storeMessages) : d.id = t.id
            /\ [t EXCEPT !.stage = "applied"] \in messageDeletes')
           => storeMessages' = storeMessages /\ error' = error
        /\ (FoundNothing(t) /\ t \notin messageDeletes')
           => /\ error' = error
              /\ lastFailure' = lastFailure
              /\ successMessage' = MessageDeleted
              /\ storeMessages' = storeMessages
              /\ LeftByEarlierDelete(messages, t) => messages' = messages

\* C12: a delete call for a document that an earlier call already deleted
\* leaves the store as it is, resolves as a success without setting an error,
\* and leaves the local list as the earlier call left it (projects and messages).
C12_DeleteIdempotent ==
    [][RepeatedProjectDelete /\ RepeatedMessageDelete]_vars

\* C12 witness: the second delete call found its document already gone, the
\* first call has completed and shown its success, and the list is as it left it
C12_Witness ==
    \E t \in deletes :
        /\ t.n = 2
        /\ FoundNothing(t)
        /\ deletes = {t}
        /\ \E k \in 1..Len(t.closure) : t.closure[k].id = t.id
        /\ LeftByEarlierDelete(projects, t)
        /\ successMessage = ProjectDeleted

(* ------------------------------------------------------------------------*)
(*                     CLAIMS ABOUT THE PROFILE DOCUMENT                   *)
(* ------------------------------------------------------------------------*)

(* the fields the setDoc call of handleSaveProfileImage names *)
NamedInWrite ==
    IF variant = "Page" THEN {"imageUrl"}
    ELSE {"profileImageBase64", "updatedAt"}

\* C13: a save of the profile image keeps every field of settings/profile that
\* the write does not name at the value it had before the save.
C13_SavePreservesOtherFields ==
    [][\A x \in DOMAIN storeProfile \ NamedInWrite :
          /\ x \in DOMAIN storeProfile'
          /\ storeProfile'[x] = storeProfile[x]]_vars

(* ------------------------------------------------------------------------*)
(*                        CLAIMS ABOUT FAILURES                            *)
(* ------------------------------------------------------------------------*)

(* the operations a user starts: the fetches of the lists are not among them *)
UserOperations ==
    {"createProject", "deleteProject", "deleteMessage", "saveProfileImage",
     "sendMessage", "processImage"}

\* C14: whenever an operation the user started has failed, the handler of the
\* action caught the failure and put a message on the screen.
C14_FailuresShown ==
    lastFailure.op \in UserOperations => lastFailure.ended = "shown"

(* what a failed operation has to leave alone: the lists, the form fields, the
   pending images and the visibility of the form *)
uiState ==
    <<projects, messages, projectForm, form, imageBase64, imagePreview,
      profileImageBase64, profileImagePreview, showForm>>

(* the success messages of the dashboard and of the contact page *)
successShown == <<successMessage, profileSuccess, success>>

(* steps in which a write that was in flight ends without having been applied *)
CreateFailed == createWrite.stage = "sent" /\ createWrite' = NoCreate
ProfileSaveFailed == profileWrite.stage = "sent" /\ profileWrite' = NoProfileWrite
SendFailed ==
    contactWrite.pending /\ contactWrite' = NoWrite /\ messagesSent' = messagesSent
DeleteFailed(t) == t \in deletes /\ t.stage = "sent" /\ deletes' = deletes \ {t}
MessageDeleteFailed(t) ==
    t \in messageDeletes /\ t.stage = "sent" /\ messageDeletes' = messageDeletes \ {t}

FailureKeepsUi ==
    /\ CreateFailed =>
          /\ UNCHANGED <<uiState, successShown, storeProjects>>
          /\ ~submitting'
    /\ ProfileSaveFailed =>
          /\ UNCHANGED <<uiState, successShown, storeProfile>>
          /\ ~savingProfile'
          /\ profileImageBase64' # NoImage
    /\ SendFailed =>
          /\ UNCHANGED <<uiState, successShown, storeMessages>>
          /\ ~contactSubmitting'
    /\ \A t \in deletes : DeleteFailed(t) =>
          /\ UNCHANGED <<uiState, successShown, storeProjects>>
          /\ \A u \in deletes' : u.id # t.id \/ u.n # t.n
    /\ \A t \in messageDeletes : MessageDeleteFailed(t) =>
          /\ UNCHANGED <<uiState, successShown, storeMessages>>
          /\ \A u \in messageDeletes' : u.id # t.id \/ u.n # t.n

\* C15: the step in which a project create, a project or message delete, a
\* profile save or a contact send fails leaves the lists, the form fields, the
\* pending images and the form's visibility as they were, shows no success
\* message of its own, leaves the in-progress flag false and no write of the
\* operation in flight, so that the action can be started again.
C15_FailureLeavesUi ==
    [][FailureKeepsUi]_vars

\* C15 witness: a project create has failed with the form filled in, an image
\* pending and the form open; the error is shown and the button is free again
C15_Witness ==
    /\ lastFailure.op = "createProject"
    /\ error = WriteError
    /\ projectForm = FilledProjectForm
    /\ imageBase64 # NoImage
    /\ showForm
    /\ ~submitting
    /\ createWrite = NoCreate

(* the list queries *)
ListQueries == {"fetchProjects", "fetchMessages"}

(* a failed list query ended in a catch block that logged it *)
FetchFailureLogged ==
    lastFailure.op \in ListQueries => lastFailure.ended = "logged"

(* steps in which a list query that was not answered ends *)
ProjectsFetchFailed(t) == t \in fetches /\ t.stage = "sent" /\ fetches' = fetches \ {t}
MessagesFetchFailed(t) ==
    t \in messageFetches /\ t.stage = "sent" /\ messageFetches' = messageFetches \ {t}

FetchFailureEmpties ==
    /\ \A t \in fetches : ProjectsFetchFailed(t) => projects' = <<>>
    /\ \A t \in messageFetches : MessagesFetchFailed(t) => messages' = <<>>

\* C16: a list query that fails is logged by its caller and does not escape
\* the fetch function, and the list of the view is empty after it.
C16_FetchFailureDegrades ==
    /\ []FetchFailureLogged
    /\ [][FetchFailureEmpties]_vars

(* ------------------------------------------------------------------------*)
(*                   CLAIMS ABOUT SIGN-OUT AND SIGN-IN                     *)
(* ------------------------------------------------------------------------*)

(* the step in which the logout() call of the dashboard returns *)
LogoutReturns == logoutPc = "signOut" /\ logoutPc' = "idle" /\ ~loading'

LogoutOutcome ==
    LogoutReturns =>
        /\ lastLogout'.done
        /\ IF lastLogout'.success
           THEN /\ lastLogout'.error = NULL
                /\ authUser' = NoUser
                /\ user' = NoUser
                /\ LoginScreen'
           ELSE /\ lastLogout'.error = SignOutError
                /\ UNCHANGED <<authUser, user, loading>>

\* C17: when logout() returns it returns a record: {success: true, error: null}
\* with the session revoked, the subscribers holding user = null and the login
\* screen shown, or {success: false, error} with the session, the subscribers'
\* user and the screen unchanged.
C17_LogoutOutcome ==
    [][LogoutOutcome]_vars

\* C17 witness: the admin had signed in, logout() has returned success, and
\* the login screen is shown
C17_Witness ==
    /\ lastLogin.result.user = Account(AdminAddress)
    /\ lastLogout.done /\ lastLogout.success
    /\ authUser = NoUser
    /\ LoginScreen
    /\ logoutPc = "idle"

(* the step in which signInWithPopup rejects and handleGoogleLogin finishes *)
ProviderSignInFails ==
    /\ loginPc = "popup"
    /\ loginPc' = "idle"
    /\ authUser' = authUser
    /\ lastLogin'.account = NoUser
    /\ ~loading'

ProviderFailureOutcome ==
    ProviderSignInFails =>
        /\ lastLogin'.result = [user |-> NoUser, error |-> PopupError]
        /\ error' = lastLogin'.result.error
        /\ ~isLoggingIn'
        /\ UNCHANGED <<authUser, user>>
        /\ LoginScreen'

\* C18: when the provider's sign-in fails, loginWithGoogle returns
\* {user: null, error} with the provider's error, handleGoogleLogin shows that
\* error's message unchanged, isLoggingIn is false again, and the login screen
\* stays with nobody signed in.
C18_ProviderFailure ==
    [][ProviderFailureOutcome]_vars

\* C18 witness: the popup was opened and failed; the provider's message is on
\* the login screen and the button is free again
C18_Witness ==
    /\ lastLogin.result = [user |-> NoUser, error |-> PopupError]
    /\ error = PopupError
    /\ ~isLoggingIn
    /\ loginPc = "idle"
    /\ LoginScreen
    /\ authUser = NoUser

(* the email is a non-empty string equal to the configured one *)
ExactlyAdmin(email) == email # NULL /\ email # "" /\ email = ADMIN_EMAIL

\* C19: checkIsAdmin(email) is true exactly when email is a non-empty string
\* equal to the configured admin email, for addresses that differ from it in
\* case or by a trailing space too; the App.tsx dashboard, which admits through
\* checkIsAdmin, holds a user exactly when the session's email is that one.
C19_ExactMatch ==
    /\ \A e \in Emails : checkIsAdmin(e) <=> ExactlyAdmin(e)
    /\ (variant = "App" /\ ~loading) =>
          (user.signedIn <=> (authUser.signedIn /\ ExactlyAdmin(authUser.email)))

\* C19 witness: the provider session belongs to an address that differs from
\* the admin email only in case or by a trailing space; the App.tsx dashboard
\* has been notified and holds no user
C19_Witness ==
    /\ variant = "App"
    /\ ADMIN_EMAIL = AdminAddress
    /\ authUser.signedIn
    /\ authUser.email \in {OtherCaseAddress, PaddedAddress}
    /\ ~loading
    /\ ~user.signedIn
    /\ loginPc = "idle"

(* ------------------------------------------------------------------------*)
(*                  CLAIMS ABOUT CONCURRENT IMAGE PIPELINES                *)
(* ------------------------------------------------------------------------*)

InFlight(f) == pipelines[f].stage \in {"reading", "decoding"}

(* the pending image of a target: the encoded image and its preview *)
pendingOf(target) ==
    IF target = "project" THEN <<imageBase64, imagePreview>>
    ELSE <<profileImageBase64, profileImagePreview>>

OthersUntouched(f) == \A g \in Files \ {f} : pipelines'[g] = pipelines[g]

PipelinesIndependent ==
    \A f \in Files :
        /\ (pipelines[f].stage = "unused" /\ pipelines'[f].stage # "unused")
           => /\ InFlight(f)'
              /\ OthersUntouched(f)
              /\ UNCHANGED <<pendingOf("project"), pendingOf("profile")>>
        /\ (InFlight(f) /\ pipelines'[f].stage = "resolved")
           => /\ pendingOf(pipelines[f].target)'[1].file = f
              /\ pendingOf(pipelines[f].target)'[2].file = f
              /\ OthersUntouched(f)

(* a pipeline in flight can always take its next step, whatever the others do *)
NeverQueued ==
    \A f \in Files :
        /\ pipelines[f].stage = "reading" =>
              IF pipelines[f].kind = "unreadable"
              THEN ENABLED ReaderErrors(f) ELSE ENABLED ReaderLoads(f)
        /\ pipelines[f].stage = "decoding" =>
              IF pipelines[f].kind = "undecodable"
              THEN ENABLED ImgErrors(f) ELSE ENABLED ImgLoads(f, TRUE)

\* C20: a file selection made while another pipeline is in flight starts a
\* pipeline of its own and leaves the other as it is; a pipeline in flight is
\* never held back; and the step in which a pipeline completes successfully
\* sets the pending image of its target to its own result, so the pending image
\* is the result of the pipeline that completed last.
C20_PipelinesIndependent ==
    /\ []NeverQueued
    /\ [][PipelinesIndependent]_vars

\* C20 witness: two files were chosen for the project image, the second while
\* the first was in flight; the second completed first and the first last, and
\* the pending image is the first one's
C20_Witness ==
    /\ pipelines[1].target = "project" /\ pipelines[1].stage = "resolved"
    /\ pipelines[2].target = "project" /\ pipelines[2].stage = "resolved"
    /\ imageBase64.file = 1
    /\ imagePreview.file = 1

(* ------------------------------------------------------------------------*)
(*                     CLAIMS ABOUT THE PROJECT FORM                       *)
(* ------------------------------------------------------------------------*)

TitleAndDescription(r) == r.title # "" /\ r.description # ""

\* C21: no project write is issued, and no project document exists in the
\* store, with an empty title or an empty description.
C21_CreateOnlyWhenFilled ==
    /\ createWrite.stage # "none" => TitleAndDescription(createWrite.fields)
    /\ \A d \in storeProjects : TitleAndDescription(d)

(* ------------------------------------------------------------------------*)
(*                    CLAIMS ABOUT THE OUTPUT'S BOUNDS                     *)
(* ------------------------------------------------------------------------*)

(* the dual-axis form scales: either dimension exceeds its maximum *)
DualScales == imgWidth > maxWidth \/ imgHeight > maxHeight

\* C22: every drawn output is at most maxWidth wide; under the dual-axis form
\* it is also at most maxHeight high, and when that form scales, each output
\* dimension is the input dimension times the one common ratio
\* min(maxWidth/width, maxHeight/height), cut to whole pixels (within one pixel
\* of it); when it does not scale the output has the input's dimensions.
C22_OutputBounded ==
    Drawn =>
        /\ canvasWidth <= maxWidth
        /\ policy = "dual" =>
              /\ canvasHeight <= maxHeight
              /\ IF DualScales THEN Proportional
                 ELSE canvasWidth = imgWidth /\ canvasHeight = imgHeight

\* C22 witness: a dual-axis resize of an image that fits the width but not the
\* height: the height ratio is the common ratio and both dimensions shrink
C22_Witness ==
    /\ Drawn
    /\ policy = "dual"
    /\ imgWidth <= maxWidth
    /\ imgHeight > maxHeight
    /\ canvasHeight <= maxHeight
    /\ canvasHeight > 0
    /\ canvasWidth < imgWidth

(* ------------------------------------------------------------------------*)
(*                    CLAIMS ABOUT OVERLAPPING DELETES                     *)
(* ------------------------------------------------------------------------*)

Ids(docs) == {d.id : d \in docs}

(* every delete call that was started has completed, none of them or of the
   other calls has failed, and no refresh is on its way *)
ProjectsSettled ==
    /\ deleteClicks > 0 /\ deletes = {} /\ fetches = {} /\ createWrite = NoCreate
    /\ lastFailure = NoFailure
MessagesSettled ==
    /\ messageDeleteClicks > 0 /\ messageDeletes = {} /\ messageFetches = {}
    /\ lastFailure = NoFailure

\* C23: once every delete call has completed successfully and no refresh is outstanding,
\* the local list holds no item whose document is gone from the store, and
\* holds every stored project that a completed refresh returned.
C23_DeletesConverge ==
    /\ ProjectsSettled =>
          /\ Ids(Range(projects)) \subseteq Ids(storeProjects)
          /\ \A d \in storeProjects : d.id \in refreshed => d.id \in Ids(Range(projects))
    /\ MessagesSettled =>
          Ids(Range(messages)) \subseteq Ids(Range(storeMessages))

(* ------------------------------------------------------------------------*)
(*                  CLAIMS ABOUT READING THE PROFILE IMAGE                 *)
(* ------------------------------------------------------------------------*)

\* C24: once the store has taken the write of a profile save, a load of the
\* home page and the dashboard's fetchProfileImage both read the saved image
\* back from settings/profile.
C24_ProfileRoundTrip ==
    profileWrite.stage = "applied" =>
        /\ HomeProfileImage(storeProfile) = profileWrite.image
        /\ FetchProfileImage(storeProfile) = profileWrite.image

(* ------------------------------------------------------------------------*)
(*                    CLAIMS ABOUT THE TWO ADMIN TESTS                     *)
(* ------------------------------------------------------------------------*)

(* loginWithGoogle accepted the account the popup returned: it did not go on
   to sign it out *)
LoginAccepted == lastLogin.account.signedIn /\ lastLogin.signOut = "none"

\* C25: for the account the popup returned, loginWithGoogle accepts it exactly
\* when checkIsAdmin is true of its email; with the admin email unset or empty
\* neither accepts it.
C25_AdminTestsAgree ==
    lastLogin.account.signedIn =>
        /\ LoginAccepted <=> checkIsAdmin(lastLogin.account.email)
        /\ ADMIN_EMAIL \in {"", UNDEFINED} =>
              ~LoginAccepted /\ ~checkIsAdmin(lastLogin.account.email)

(* ------------------------------------------------------------------------*)
(*                  CLAIMS ABOUT THE FORM AFTER A CREATE                   *)
(* ------------------------------------------------------------------------*)

(* the step in which addDoc resolves *)
CreateSucceeds == createWrite.stage = "applied" /\ createWrite' = NoCreate

FormResetByCreate ==
    CreateSucceeds =>
        /\ projectForm' = EmptyProjectForm
        /\ imageBase64' = NoImage
        /\ imagePreview' = NoImage
        /\ ~showForm'

(* the image of the write in flight was chosen for this project: its file was
   selected after the last successful create *)
ImageChosenForThisProject ==
    LET image == createWrite.fields.imageUrl
    IN image # NoImage =>
          image.file \in Files /\ pipelines[image.file].since = lastCreated

\* C26: the step in which a create succeeds empties the form fields and the
\* pending image and hides the form; and a project write carries an image only
\* if its file was selected after the last successful create, so a project
\* created without selecting a new image is stored with an empty imageUrl.
C26_FormResetHolds ==
    /\ [](createWrite.stage # "none" => ImageChosenForThisProject)
    /\ [][FormResetByCreate]_vars

(* ------------------------------------------------------------------------*)
(*                   CLAIMS ABOUT THE SUBMITTING FLAG                      *)
(* ------------------------------------------------------------------------*)

ProjectWriteInFlight == createWrite.stage # "none"
ContactWriteInFlight == contactWrite.pending

(* a step that starts a write does so with the flag down and none in flight *)
WritesStartWhenIdle ==
    /\ (createWrite'.stage = "sent" /\ createWrite' # createWrite)
          => ~submitting /\ ~ProjectWriteInFlight /\ submitting'
    /\ (contactWrite'.pending /\ contactWrite' # contactWrite)
          => ~contactSubmitting /\ ~ContactWriteInFlight /\ contactSubmitting'

\* C27: submitting is true exactly while the write of a project create is in
\* flight, and the contact page's flag exactly while its write is; a write is
\* started only with the flag false and no write in flight, so at most one
\* write of a form is in flight at a time.
C27_SubmittingTracksWrite ==
    /\ [](submitting <=> ProjectWriteInFlight)
    /\ [](contactSubmitting <=> ContactWriteInFlight)
    /\ [][WritesStartWhenIdle]_vars

\* C27 witness: a first create has settled, the flag went down, and a second
\* write is in flight with the flag up again
C27_Witness ==
    /\ created >= 1
    /\ lastCreated >= 1
    /\ submitting
    /\ createWrite.stage = "sent"

(* ------------------------------------------------------------------------*)
(*                  CLAIMS ABOUT A DECLINED CONFIRMATION                   *)
(* ------------------------------------------------------------------------*)

DeclineLeavesAll ==
    declined' # declined =>
        UNCHANGED <<deletes, messageDeletes, storeProjects, storeMessages,
                    projects, messages, successMessage, error, deleteClicks,
                    messageDeleteClicks, lastFailure>>

\* C28: the step in which the confirmation dialog of a delete button is
\* declined starts no store delete and leaves the store, the local lists, the
\* success message and the error as they were.
C28_DeclineChangesNothing ==
    [][DeclineLeavesAll]_vars

\* C28 witness: a delete of a listed project was declined: the project is
\* still listed and stored and no delete call is in flight
C28_Witness ==
    /\ declined = 1
    /\ Len(projects) >= 1
    /\ Ids(Range(projects)) \subseteq Ids(storeProjects)
    /\ deletes = {}
    /\ deleteClicks = 0

(* ------------------------------------------------------------------------*)
(*                 CLAIMS ABOUT THE PROJECTS PAGE'S SPINNER                *)
(* ------------------------------------------------------------------------*)

PageFetchSettled == pageFetch.stage \in {"done", "failed"}

LoadingNeverSetBack == pageLoading' => pageLoading

\* C29: on ProjectsPage loading is true while the initial fetch is pending, is
\* false once that fetch has settled, with the list set or with the error
\* logged, and no step turns it from false back to true.
C29_SpinnerEnds ==
    /\ [](pageFetch.stage # "none" => (pageLoading <=> ~PageFetchSettled))
    /\ [][LoadingNeverSetBack]_vars

\* C29 witness: the fetch failed while the store held projects: the page has
\* left the spinner with an empty list and the error logged.
C29_Witness ==
    /\ pageFetch.stage = "failed"
    /\ storeProjects # {}
    /\ ~pageLoading
    /\ pageProjects = <<>>
    /\ lastFailure = [op |-> "fetchProjects", ended |-> "logged"]

(* ------------------------------------------------------------------------*)
(*                   CLAIMS ABOUT THE HOME PAGE'S READS                    *)
(* ------------------------------------------------------------------------*)

HomeFetchFailed == homeFetch.stage = "failed"

\* C30: in HomePage.fetchData the project query is issued only after the
\* profile read has resolved, projects is set only when both reads succeeded,
\* and whenever either read failed profileImage is still null and projects is
\* still the empty list.
C30_FetchDataAllOrNothing ==
    /\ homeFetch.stage \in {"sent", "read", "done"} => homeFetch.failedAt = "none"
    /\ homeProjects # <<>> => homeFetch.stage = "done"
    /\ HomeFetchFailed => (homeProfileImage = NoImage /\ homeProjects = <<>>)

\* C30 as amended: the project query is issued only after the profile read
\* has resolved, projects is set only when both reads succeeded; when the
\* profile read failed profileImage is still null and projects still empty;
\* when the project query failed projects is still empty and profileImage is
\* what the profile read, which had succeeded, made it.
C30_FetchDataSequenced ==
    /\ homeFetch.stage \in {"sent", "read", "done"} => homeFetch.failedAt = "none"
    /\ homeProjects # <<>> => homeFetch.stage = "done"
    /\ HomeFetchFailed => homeProjects = <<>>
    /\ homeFetch.failedAt = "profile" => homeProfileImage = NoImage
    /\ homeFetch.failedAt = "projects" =>
          homeProfileImage = HomeProfileImage(storeProfile)

\* C30 witness: the profile read set the image, then the project query
\* failed while the store held projects: the image stays, the list is empty.
C30_Witness ==
    /\ homeFetch.failedAt = "projects"
    /\ homeProfileImage # NoImage
    /\ homeProjects = <<>>
    /\ storeProjects # {}

(* ------------------------------------------------------------------------*)
(*                            SPECIFICATIONS                               *)
(* ------------------------------------------------------------------------*)

(* One part of the site is in use in a behaviour: view says which.  The
   steps of the other parts are not taken, so that a specification which
   covers several parts is the union of their behaviours. *)
Elsewhere == IdleMessages /\ IdlePublic /\ declined = 0 /\ lastFailure = NoFailure

AuthStart ==
    view = "login" /\ InitAuth /\ IdleResize /\ IdleTags /\ IdleContact
        /\ IdleDash /\ Elsewhere
SpecAuth == AuthStart /\ [][NextAuth]_vars

ResizeStart ==
    view = "images" /\ IdleAuth /\ InitResize /\ IdleTags /\ IdleContact
        /\ IdleDash /\ Elsewhere
SpecResize == ResizeStart /\ [][NextResize]_vars

TagsStart ==
    view = "projects" /\ IdleAuth /\ IdleResize /\ InitTags /\ IdleContact
        /\ IdleDash /\ Elsewhere
SpecTags == TagsStart /\ [][NextTags]_vars

ContactStart ==
    view = "contact" /\ IdleAuth /\ IdleResize /\ IdleTags /\ InitContact
        /\ IdleDash /\ Elsewhere
SpecContact == ContactStart /\ [][NextContact]_vars

ProjectsStart ==
    view = "projects" /\ DashboardAdmin /\ IdleResize /\ IdleTags /\ IdleContact
        /\ InitProjects /\ Elsewhere
SpecProjects == ProjectsStart /\ [][NextProjects]_vars

ImagesStart ==
    view = "images" /\ DashboardAdmin /\ IdleResize /\ IdleTags /\ IdleContact
        /\ InitImages /\ Elsewhere
SpecImages == ImagesStart /\ [][NextImages]_vars

MessagesStart ==
    view = "messages" /\ DashboardAdmin /\ variant = "Page" /\ IdleResize
        /\ IdleTags /\ IdleContact /\ IdleDash /\ InitMessages /\ IdlePublic
        /\ declined = 0 /\ lastFailure = NoFailure
SpecMessages == MessagesStart /\ [][NextMessages]_vars

(* the two lists of the dashboard *)
ListsStart ==
    \/ ProjectsStart
    \/ MessagesStart
NextLists ==
    \/ view = "projects" /\ NextProjects
    \/ view = "messages" /\ NextMessages
SpecLists == ListsStart /\ [][NextLists]_vars

(* every operation a user can start: project create and delete, file
   selection and profile image save, message delete, contact message send *)
OpsStart ==
    \/ ProjectsStart
    \/ ImagesStart
    \/ MessagesStart
    \/ ContactStart
NextOps ==
    \/ view = "projects" /\ NextProjects
    \/ view = "images" /\ NextImages
    \/ view = "messages" /\ NextMessages
    \/ view = "contact" /\ NextContact
SpecOps == OpsStart /\ [][NextOps]_vars

(* a visitor on /projects *)
ProjectsPageStart ==
    view = "projectsPage" /\ IdleAuth /\ IdleResize /\ IdleTags /\ IdleContact
        /\ VisitorStore /\ IdleMessages /\ InitProjectsPage
        /\ declined = 0 /\ lastFailure = NoFailure
SpecProjectsPage == ProjectsPageStart /\ [][NextProjectsPage]_vars

(* a visitor on the home page *)
HomeStart ==
    view = "home" /\ IdleAuth /\ IdleResize /\ IdleTags /\ IdleContact
        /\ VisitorStore /\ IdleMessages /\ InitHome
        /\ declined = 0 /\ lastFailure = NoFailure
SpecHome == HomeStart /\ [][NextHome]_vars

====
